---- MODULE Spec2Model ----
(***************************************************************************)
(* A model of pyyupsk/extension-exporter: the discovery of installed       *)
(* browser extensions and their repackaging.  The repository holds two     *)
(* implementations of class ExtensionExporter, and the model carries both, *)
(* selected by the variable impl:                                          *)
(*   "index"   - src/src/index.ts, lines 268-705 (one shared pLimit(5))    *)
(*   "service" - src/src/services/extension-exporter.ts, lines 15-291      *)
(*               with src/src/utils/fs.ts                                  *)
(* Text that the code inspects character by character (version strings,   *)
(* display names) is a sequence of one-character strings; everything else  *)
(* is a TLA+ string.                                                       *)
(***************************************************************************)
EXTENDS Integers, Sequences, FiniteSets, TLC

VARIABLES
  impl,      \* which implementation runs: "index" or "service"
  verA,      \* comparator: first version string  (a of sort((a, b) => ...))
  verB,      \* comparator: second version string (b)
  cmpAB,     \* comparator: <<>>, or <<n>> once the comparator returned n for (a, b)
  browser,   \* the browser identifier handed to the call
  extRoot,   \* the profile's extensions directory: "absent", "unlistable" or "listed"
  extDir,    \* its entries in readdir order
  gefPc,     \* getExtensionsFromProfile: where the call stands
  gefResult, \* the list it returned
  item,      \* item[i]: the task processing extDir[i]
  loc,       \* loc[i][j]: the task reading locale j for the name of extDir[i]
  queue,     \* index.ts: the tasks waiting in this.limit, oldest first
  fs,        \* the filesystem: the set of its nodes
  exExt,     \* exportExtension: <<extension>>, the record handed to the call
  ex,        \* exportExtension: where the call stands
  copy,      \* copyDirectory: its calls and per-item functions in progress
  fault,     \* the filesystem call that is going to fail
  run,       \* run(): where the call stands, what it was answered and what it logged
  gbp,       \* getBrowserProfiles: where the call stands and the list it builds
  val        \* ExtensionInfoSchema.parse: <<>>, or the record given and the outcome

cmpVars == <<verA, verB, cmpAB>>

gefVars == <<browser, extRoot, extDir, gefPc, gefResult, item, loc, queue>>

expVars == <<fs, exExt, ex, copy, fault>>

vars ==
  <<impl, verA, verB, cmpAB, browser, extRoot, extDir, gefPc, gefResult, item, loc, queue,
    fs, exExt, ex, copy, fault, run, gbp, val>>

\* What the comparator, the discovery, the export and run() leave alone.
notCmpVars == <<gefVars, expVars, run, gbp, val>>

notGefVars == <<cmpVars, expVars, run, gbp, val>>

notExpVars == <<cmpVars, extRoot, extDir, gefPc, gefResult, item, loc, run, gbp, val>>

notRunVars ==
  <<impl, cmpVars, extRoot, extDir, gefPc, gefResult, item, loc, queue, exExt, ex, copy, fault,
    gbp, val>>

notGbpVars == <<impl, cmpVars, gefVars, expVars, run, val>>

notValVars == <<impl, cmpVars, gefVars, expVars, run, gbp>>

Impls == {"index", "service"}

(***************************************************************************)
(* Text helpers                                                            *)
(***************************************************************************)
Digits == <<"0", "1", "2", "3", "4", "5", "6", "7", "8", "9">>

IsDigit(c) == \E i \in 1..Len(Digits) : Digits[i] = c

DigitValue(c) == (CHOOSE i \in 1..Len(Digits) : Digits[i] = c) - 1

\* The string made of the characters of cs.
RECURSIVE Str(_)
Str(cs) == IF cs = <<>> THEN "" ELSE Head(cs) \o Str(Tail(cs))

\* String.prototype.split(sep) on a character sequence: the pieces between
\* separators; the empty string splits into one empty piece.
RECURSIVE SplitOn(_, _, _)
SplitOn(cs, sep, cur) ==
  IF cs = <<>> THEN <<cur>>
  ELSE IF Head(cs) = sep THEN <<cur>> \o SplitOn(Tail(cs), sep, <<>>)
  ELSE SplitOn(Tail(cs), sep, Append(cur, Head(cs)))

Split(cs, sep) == SplitOn(cs, sep, <<>>)

\* The pieces joined again with sep between them.
RECURSIVE Join(_, _)
Join(pieces, sep) ==
  IF pieces = <<>> THEN <<>>
  ELSE IF Len(pieces) = 1 THEN pieces[1]
  ELSE pieces[1] \o <<sep>> \o Join(Tail(pieces), sep)

\* The leading run of decimal digits of cs, read as a number (acc so far).
RECURSIVE ReadDigits(_, _)
ReadDigits(cs, acc) ==
  IF cs = <<>> \/ ~IsDigit(Head(cs)) THEN acc
  ELSE ReadDigits(Tail(cs), 10 * acc + DigitValue(Head(cs)))

RECURSIVE SkipSpaces(_)
SkipSpaces(cs) == IF cs # <<>> /\ Head(cs) = " " THEN SkipSpaces(Tail(cs)) ELSE cs

\* A JavaScript number, and the values NaN and undefined, which `|| 0` turns
\* into 0.
JsNumber(n) == [isNumber |-> TRUE, value |-> n]

NotANumber == [isNumber |-> FALSE, value |-> 0]

\* JavaScript's parseInt(s) without a radix, on the model's alphabet: leading
\* white space is skipped, one sign is read, then the longest run of decimal
\* digits; NaN when no digit follows.
ParseInt(cs) ==
  LET t    == SkipSpaces(cs)
      neg  == t # <<>> /\ Head(t) = "-"
      body == IF t # <<>> /\ Head(t) \in {"-", "+"} THEN Tail(t) ELSE t
  IN  IF body = <<>> \/ ~IsDigit(Head(body)) THEN NotANumber
      ELSE IF neg THEN JsNumber(0 - ReadDigits(body, 0))
      ELSE JsNumber(ReadDigits(body, 0))

\* `x || 0` for a number, NaN or undefined.
OrZero(x) == IF x.isNumber THEN x.value ELSE 0

\* a.split(".").map((n) => parseInt(n) || 0)
VersionNumbers(v) ==
  LET segs == Split(v, ".")
  IN  [i \in 1..Len(segs) |-> OrZero(ParseInt(segs[i]))]

\* arr[i] of a JavaScript array (0-based i), undefined past its end.
ArrayAt(arr, i) == IF i + 1 <= Len(arr) THEN JsNumber(arr[i + 1]) ELSE NotANumber

MaxOf(x, y) == IF x >= y THEN x ELSE y

MinOf(x, y) == IF x <= y THEN x ELSE y

(***************************************************************************)
(* The version comparator of getExtensionsFromProfile                      *)
(***************************************************************************)
\* for (let i = 0; i < limit; i++) { diff = (bNum[i]||0) - (aNum[i]||0);
\*   if (diff !== 0) return diff }  return 0
RECURSIVE CompareLoop(_, _, _, _)
CompareLoop(aNum, bNum, i, limit) ==
  IF i >= limit THEN 0
  ELSE LET diff == OrZero(ArrayAt(bNum, i)) - OrZero(ArrayAt(aNum, i))
       IN  IF diff # 0 THEN diff ELSE CompareLoop(aNum, bNum, i + 1, limit)

\* A comparator that stops at the shorter version's last segment.
CompareVersionsShort(a, b) ==
  LET aNum == VersionNumbers(a)
      bNum == VersionNumbers(b)
  IN  CompareLoop(aNum, bNum, 0, MinOf(Len(aNum), Len(bNum)))

\* The comparator handed to versionDirs.sort: negative when a sorts before b,
\* that is when a is the higher version.
CompareVersions(a, b) ==
  LET aNum == VersionNumbers(a)
      bNum == VersionNumbers(b)
  IN  CompareLoop(aNum, bNum, 0, MaxOf(Len(aNum), Len(bNum)))

Sign(n) == IF n > 0 THEN 1 ELSE IF n < 0 THEN -1 ELSE 0

(***************************************************************************)
(* JavaScript values read out of JSON: undefined, a string (a sequence of  *)
(* characters) or a number                                                 *)
(***************************************************************************)
Undef == <<"undefined">>

StrVal(cs) == <<"string", cs>>

NumVal(n) == <<"number", n>>

IsString(v) == v[1] = "string"

\* if (v) / v || other
Truthy(v) == \/ v[1] = "string" /\ v[2] # <<>>
             \/ v[1] = "number" /\ v[2] # 0

StartsWith(cs, pre) == Len(cs) >= Len(pre) /\ SubSeq(cs, 1, Len(pre)) = pre

EndsWith(cs, suf) ==
  Len(cs) >= Len(suf) /\ SubSeq(cs, Len(cs) - Len(suf) + 1, Len(cs)) = suf

\* String.prototype.trim
RECURSIVE TrimEnd(_)
TrimEnd(cs) ==
  IF cs # <<>> /\ cs[Len(cs)] = " " THEN TrimEnd(SubSeq(cs, 1, Len(cs) - 1)) ELSE cs

Trim(cs) == TrimEnd(SkipSpaces(cs))

\* name.replace(/[...]/g, "_") for the characters in bad
ReplaceChars(cs, bad) == [i \in 1..Len(cs) |-> IF cs[i] \in bad THEN "_" ELSE cs[i]]

(***************************************************************************)
(* The sort that picks the latest version                                  *)
(***************************************************************************)
\* x put into an already sorted list behind every element that does not sort
\* after it: Array.prototype.sort is stable.
RECURSIVE InsertSorted(_, _)
InsertSorted(x, sorted) ==
  IF sorted = <<>> THEN <<x>>
  ELSE IF CompareVersions(Head(sorted), x) <= 0
       THEN <<Head(sorted)>> \o InsertSorted(x, Tail(sorted))
       ELSE <<x>> \o sorted

\* versionDirs.sort(comparator)
RECURSIVE SortVersions(_)
SortVersions(list) ==
  IF list = <<>> THEN <<>>
  ELSE InsertSorted(list[Len(list)], SortVersions(SubSeq(list, 1, Len(list) - 1)))

\* The last element of the sorted list: the lowest version.
OldestVersion(versionDirs) ==
  LET sorted == SortVersions(versionDirs) IN sorted[Len(sorted)]

\* versionDirs.sort(comparator)[0], for a list that is not empty
LatestVersion(versionDirs) == SortVersions(versionDirs)[1]

(***************************************************************************)
(* Browser configuration (BROWSER_CONFIGS)                                 *)
(***************************************************************************)
ChromiumBrowsers == {"chrome", "edge", "brave", "opera", "vivaldi"}

ConfiguredBrowsers == ChromiumBrowsers \cup {"firefox"}

\* config.extensionPath
ExtensionPath(b) == IF b = "firefox" THEN "extensions" ELSE "Extensions"

\* The profile directory handed to getExtensionsFromProfile, and path.join
\* on paths kept as sequences of components.
ProfilePath == <<"home", "profile">>

PathJoin(dir, name) == Append(dir, name)

(***************************************************************************)
(* Manifests, locale bundles and the records made from them                *)
(***************************************************************************)
\* The parsed manifest.json, with the fields the code looks at; extra stands
\* for a key the schema does not know.
Manifest(mv, name, version, description, extra) ==
  [manifest_version |-> mv, name |-> name, version |-> version,
   description |-> description, extra |-> extra]

NoJson == Manifest(Undef, Undef, Undef, Undef, Undef)

\* A manifest.json on disk: "missing", "unreadable" (readFile fails),
\* "badjson" (JSON.parse throws), "null" (JSON.parse gives null) or "object".
ManifestFile(state, json) == [state |-> state, json |-> json]

\* A _locales/<locale>/messages.json: "missing", "unreadable", "badjson" or
\* "object"; message is messages[msgKey]?.message for the key looked up.
LocaleEntry(locale, state, message) ==
  [locale |-> locale, state |-> state, message |-> message]

\* The _locales directory: "absent", "unlistable" (readdir fails) or "listed".
LocalesDir(state, entries) == [state |-> state, entries |-> entries]

NoLocales == LocalesDir("absent", <<>>)

DefaultVersion == <<"1", ".", "0", ".", "0">>

\* const extensionInfo = { id, name, version: manifest.version || "1.0.0",
\*   description: manifest.description, manifest, folderPath }
ExtensionInfo(id, name, manifest, folderPath) ==
  [id |-> id, name |-> name,
   version |-> IF Truthy(manifest.version) THEN manifest.version
               ELSE StrVal(DefaultVersion),
   description |-> manifest.description,
   manifest |-> manifest,
   folderPath |-> folderPath]

OptionalString(v) == v = Undef \/ IsString(v)

\* A manifest schema with no literal for manifest_version.
ManifestSchemaAcceptsAnyVersion(m) ==
  /\ IsString(m.name)
  /\ IsString(m.version)
  /\ OptionalString(m.description)

\* The two variants of the manifest schema: the literal 2 or 3, name and
\* version required strings, description an optional string.
ManifestSchemaAccepts(m) ==
  /\ m.manifest_version \in {NumVal(2), NumVal(3)}
  /\ IsString(m.name)
  /\ IsString(m.version)
  /\ OptionalString(m.description)

\* ExtensionInfoSchema.parse(info) does not throw: z.string() for id, name,
\* version and folderPath, z.string().optional() for description.
ExtensionInfoSchemaAccepts(info) ==
  /\ IsString(info.id)
  /\ IsString(info.name)
  /\ IsString(info.version)
  /\ OptionalString(info.description)
  /\ ManifestSchemaAccepts(info.manifest)
  /\ IsString(info.folderPath)

\* ExtensionInfoSchema.parse(extensionInfo) does not throw, for a record of
\* the discovery: its id and folderPath are strings by construction (a
\* directory name, a path.join result).
SchemaAccepts(info) ==
  ExtensionInfoSchemaAccepts([info EXCEPT !.id = StrVal(@), !.folderPath = StrVal(@)])

\* Characters services/extension-exporter.ts replaces in a display name.
ReservedChars == {"<", ">", ":", "\"", "/", "\\", "|", "?", "*"}

\* services/extension-exporter.ts getExtensionName, for a manifest whose name
\* is a string (name.replace throws a TypeError for any other).
ServiceExtensionName(manifest, extId) ==
  LET name == Trim(ReplaceChars(manifest.name[2], ReservedChars))
  IN  StrVal(IF name = <<>> THEN extId ELSE name)

MsgPrefix == <<"_", "_", "M", "S", "G", "_">>

MsgSuffix == <<"_", "_">>

\* index.ts: const name = manifest.name || extId
IndexInitialName(manifest, extId) ==
  IF Truthy(manifest.name) THEN manifest.name ELSE StrVal(extId)

\* typeof name === "string" && name.startsWith("__MSG_") && name.endsWith("__")
IsLocalized(name) ==
  IsString(name) /\ StartsWith(name[2], MsgPrefix) /\ EndsWith(name[2], MsgSuffix)

\* `Unknown Extension (${extId})`
UnknownExtension(extId) ==
  StrVal(<<"U", "n", "k", "n", "o", "w", "n", " ", "E", "x", "t", "e", "n", "s",
           "i", "o", "n", " ", "(">> \o extId \o <<")">>)

(***************************************************************************)
(* getExtensionsFromProfile: one task per directory entry                  *)
(*                                                                         *)
(* A task's pc names the filesystem call it is waiting for; a completed    *)
(* call and the code up to the next await are one step.                    *)
(*   queued            waiting in this.limit (index.ts)                    *)
(*   statItem          isDirectory(itemPath)                               *)
(*   readdirItem       fs.readdir(itemPath)                                *)
(*   statVersion       isDirectory(versionPath) of version number vi       *)
(*   accessManifest    pathExists(manifestPath)                            *)
(*   readManifest      fs.readFile(manifestPath)                           *)
(*   accessLocales     pathExists(localesDir)            (index.ts)        *)
(*   readdirLocales    fs.readdir(localesDir)            (index.ts)        *)
(*   awaitLocales      Promise.all of the locale tasks   (index.ts)        *)
(*   readdirLocales2   fs.readdir(localesDir), "any available locale"      *)
(*   accessFallback    pathExists(messagesPath) of availableLocales[0]     *)
(*   readFallback      fs.readFile(messagesPath) of availableLocales[0]    *)
(*   done              returned out: <<>> for null, <<info>> for a record  *)
(*   rejected          threw                                               *)
(***************************************************************************)
\* pLimit(5)
ConcurrencyLimit == 5

ItemOpPcs == {"statItem", "readdirItem", "statVersion", "accessManifest",
              "readManifest", "accessLocales", "readdirLocales",
              "readdirLocales2", "accessFallback", "readFallback"}

LocaleOpPcs == {"accessMessages", "readMessages"}

ItemId(i) == <<"e", "x", "t", Digits[i + 1]>>

IsChromium(b) == b \in ChromiumBrowsers

NewTask == [pc |-> "queued", vi |-> 0, dirs |-> <<>>, dir |-> <<>>, out |-> <<>>]

NewLocaleTask == [pc |-> "queued", result |-> Undef]

\* return null / return extensionInfo
Finished(t, out) == [t EXCEPT !.pc = "done", !.out = out]

\* A task that lets its error escape.
UncaughtProcessingError(t) == [t EXCEPT !.pc = "rejected"]

\* catch (error) { log.warn(`Error processing extension ...`) } return null
CaughtProcessingError(t) == Finished(t, <<>>)

\* What ExtensionInfoSchema.parse(info) returns for a record it accepts: the
\* objects of the schema are z.object, which leaves out of its output every
\* key the schema does not name.
SchemaOutput(info) == [info EXCEPT !.manifest.extra = Undef]

\* A validation that returns what the schema has parsed.
ValidatedParsed(t, info) ==
  IF SchemaAccepts(info) THEN Finished(t, <<SchemaOutput(info)>>) ELSE Finished(t, <<>>)

\* try { ExtensionInfoSchema.parse(extensionInfo); return extensionInfo }
\* catch { log.warn(...); return null }
Validated(t, info) == IF SchemaAccepts(info) THEN Finished(t, <<info>>) ELSE Finished(t, <<>>)

\* The directory holding the payload of entry e for task t (extensionDir): the
\* selected version subdirectory, or the entry itself for Firefox.
ContentOf(e, t) ==
  IF IsChromium(browser)
  THEN e.subs[CHOOSE k \in 1..Len(e.subs) : e.subs[k].name = t.dir]
  ELSE e

ExtPath == PathJoin(ProfilePath, ExtensionPath(browser))

FolderPath(i, t) ==
  IF IsChromium(browser)
  THEN PathJoin(PathJoin(ExtPath, Str(ItemId(i))), Str(t.dir))
  ELSE PathJoin(ExtPath, Str(ItemId(i)))

\* The record built once the name is known, validated.
Named(i, t, name) ==
  Validated(t, ExtensionInfo(ItemId(i), name, ContentOf(extDir[i], t).manifest.json,
                             FolderPath(i, t)))

\* After readFile(manifestPath): JSON.parse, then getExtensionName up to its
\* first await.
AfterReadManifest(i, t) ==
  LET file == ContentOf(extDir[i], t).manifest
      m    == file.json
  IN  IF file.state # "object" THEN CaughtProcessingError(t)
      ELSE IF impl = "service"
      THEN IF IsString(m.name) THEN Named(i, t, ServiceExtensionName(m, ItemId(i)))
           ELSE CaughtProcessingError(t)
      ELSE IF IsLocalized(IndexInitialName(m, ItemId(i)))
           THEN [t EXCEPT !.pc = "accessLocales"]
           ELSE Named(i, t, IndexInitialName(m, ItemId(i)))

\* The task of entry i after the call it waits for has completed.
ItemAfterOp(i) ==
  LET t == item[i]
      e == extDir[i]
  IN  CASE t.pc = "statItem" ->
             IF e.kind # "dir" THEN Finished(t, <<>>)
             ELSE IF IsChromium(browser) THEN [t EXCEPT !.pc = "readdirItem"]
             ELSE IF browser = "firefox" THEN [t EXCEPT !.pc = "accessManifest"]
             ELSE Finished(t, <<>>)
        []  t.pc = "readdirItem" ->
             IF ~e.listable THEN CaughtProcessingError(t)
             ELSE IF e.subs = <<>> THEN Finished(t, <<>>)
             ELSE [t EXCEPT !.pc = "statVersion", !.vi = 1]
        []  t.pc = "statVersion" ->
             LET dirs == IF e.subs[t.vi].kind = "dir"
                         THEN Append(t.dirs, e.subs[t.vi].name) ELSE t.dirs
             IN  IF t.vi < Len(e.subs) THEN [t EXCEPT !.vi = t.vi + 1, !.dirs = dirs]
                 ELSE IF dirs = <<>> THEN Finished(t, <<>>)
                 ELSE [t EXCEPT !.pc = "accessManifest", !.dirs = dirs,
                                !.dir = LatestVersion(dirs)]
        []  t.pc = "accessManifest" ->
             IF ContentOf(e, t).manifest.state = "missing" THEN Finished(t, <<>>)
             ELSE [t EXCEPT !.pc = "readManifest"]
        []  t.pc = "readManifest" -> AfterReadManifest(i, t)
        []  t.pc = "accessLocales" ->
             IF ContentOf(e, t).locales.state = "absent"
             THEN Named(i, t, UnknownExtension(ItemId(i)))
             ELSE [t EXCEPT !.pc = "readdirLocales"]
        []  t.pc = "readdirLocales" ->
             IF ContentOf(e, t).locales.state = "unlistable" THEN CaughtProcessingError(t)
             ELSE IF ContentOf(e, t).locales.entries = <<>>
                  THEN [t EXCEPT !.pc = "readdirLocales2"]
             ELSE [t EXCEPT !.pc = "awaitLocales"]
        []  t.pc = "readdirLocales2" ->
             IF \/ ContentOf(e, t).locales.state = "unlistable"
                \/ ContentOf(e, t).locales.entries = <<>>
             THEN Named(i, t, UnknownExtension(ItemId(i)))
             ELSE [t EXCEPT !.pc = "accessFallback"]
        []  t.pc = "accessFallback" ->
             IF ContentOf(e, t).locales.entries[1].state = "missing"
             THEN Named(i, t, UnknownExtension(ItemId(i)))
             ELSE [t EXCEPT !.pc = "readFallback"]
        []  t.pc = "readFallback" ->
             LET first == ContentOf(e, t).locales.entries[1]
             IN  IF first.state = "object" /\ Truthy(first.message)
                 THEN Named(i, t, first.message)
                 ELSE Named(i, t, UnknownExtension(ItemId(i)))

\* The locale task j of entry i after the call it waits for has completed.
LocaleAfterOp(i, j) ==
  LET t == loc[i][j]
      l == ContentOf(extDir[i], item[i]).locales.entries[j]
  IN  IF t.pc = "accessMessages"
      THEN IF l.state = "missing" THEN [t EXCEPT !.pc = "done"]
           ELSE [t EXCEPT !.pc = "readMessages"]
      ELSE IF l.state = "object" THEN [pc |-> "done", result |-> l.message]
           ELSE [t EXCEPT !.pc = "done"]

\* const foundName = results.find(Boolean); if (foundName) return foundName
AfterLocales(i) ==
  LET t     == item[i]
      found == { j \in 1..Len(loc[i]) : Truthy(loc[i][j].result) }
  IN  IF found = {} THEN [t EXCEPT !.pc = "readdirLocales2"]
      ELSE Named(i, t, loc[i][CHOOSE j \in found : \A k \in found : j <= k].result)

(***************************************************************************)
(* this.limit = pLimit(5), the one limiter of index.ts                     *)
(***************************************************************************)
LocaleTaskIds(lc) == UNION { { <<i, j>> : j \in 1..Len(lc[i]) } : i \in DOMAIN lc }

\* Tasks started and not yet settled: each holds one of the limiter's slots.
ActiveCount(it, lc) ==
  Cardinality({ i \in DOMAIN it : it[i].pc \notin {"queued", "done", "rejected"} })
  + Cardinality({ p \in LocaleTaskIds(lc) : lc[p[1]][p[2]].pc \notin {"queued", "done"} })

\* The limiter starts queued tasks, oldest first, while a slot is free.  A
\* started task runs to its first await.
RECURSIVE Dispatch(_, _, _)
Dispatch(it, lc, q) ==
  IF q = <<>> \/ ActiveCount(it, lc) >= ConcurrencyLimit
  THEN [item |-> it, loc |-> lc, queue |-> q]
  ELSE LET h == Head(q)
       IN  IF h[1] = "item"
           THEN Dispatch([it EXCEPT ![h[2]].pc = "statItem"], lc, Tail(q))
           ELSE Dispatch(it, [lc EXCEPT ![h[2]][h[3]].pc = "accessMessages"], Tail(q))

\* Filesystem calls in progress.
OpsInFlight ==
  (IF gefPc \in {"accessExtPath", "readdirExtPath"} THEN 1 ELSE 0)
  + Cardinality({ i \in DOMAIN item : item[i].pc \in ItemOpPcs })
  + Cardinality({ p \in LocaleTaskIds(loc) : loc[p[1]][p[2]].pc \in LocaleOpPcs })

(***************************************************************************)
(* getExtensionsFromProfile: the actions                                   *)
(***************************************************************************)
\* The call is not in progress.
GefIdle ==
  /\ browser = "chrome"
  /\ extRoot = "absent"
  /\ extDir = <<>>
  /\ gefPc = "idle"
  /\ gefResult = <<>>
  /\ item = <<>>
  /\ loc = <<>>
  /\ queue = <<>>

\* const config = BROWSER_CONFIGS[browser]; if (!config) throw ...;
\* then pathExists(extPath) is awaited.
GefStart ==
  /\ gefPc = "called"
  /\ gefPc' = IF browser \in ConfiguredBrowsers THEN "accessExtPath" ELSE "threw"
  /\ UNCHANGED <<impl, browser, extRoot, extDir, gefResult, item, loc, queue>>
  /\ UNCHANGED notGefVars

\* pathExists(extPath) completes: return [] or await fs.readdir(extPath).
GefListed ==
  /\ gefPc = "accessExtPath"
  /\ IF extRoot = "absent"
     THEN gefPc' = "returned" /\ gefResult' = <<>>
     ELSE gefPc' = "readdirExtPath" /\ UNCHANGED gefResult
  /\ UNCHANGED <<impl, browser, extRoot, extDir, item, loc, queue>>
  /\ UNCHANGED notGefVars

\* fs.readdir(extPath) completes: it throws, or items.map(...) creates one
\* task per entry; index.ts hands them to this.limit, the service starts
\* them all.
GefSpawn ==
  /\ gefPc = "readdirExtPath"
  /\ IF extRoot = "unlistable"
     THEN gefPc' = "threw" /\ UNCHANGED <<item, loc, queue>>
     ELSE LET n  == Len(extDir)
              it == [i \in 1..n |-> NewTask]
              lc == [i \in 1..n |-> <<>>]
          IN  /\ gefPc' = "running"
              /\ IF impl = "index"
                 THEN LET d == Dispatch(it, lc, [i \in 1..n |-> <<"item", i, 0>>])
                      IN  item' = d.item /\ loc' = d.loc /\ queue' = d.queue
                 ELSE /\ item' = [i \in 1..n |-> [NewTask EXCEPT !.pc = "statItem"]]
                      /\ loc' = lc
                      /\ queue' = <<>>
  /\ UNCHANGED <<impl, browser, extRoot, extDir, gefResult>>
  /\ UNCHANGED notGefVars

\* A filesystem call of entry i's task completes and the task runs to its
\* next await or to its end; locale tasks it creates go to this.limit, and a
\* task that ends frees its slot.
ItemStep(i) ==
  /\ gefPc \in {"running", "threw"}
  /\ item[i].pc \in ItemOpPcs
  /\ LET t  == ItemAfterOp(i)
         it == [item EXCEPT ![i] = t]
         n  == Len(ContentOf(extDir[i], t).locales.entries)
         spawned == t.pc = "awaitLocales"
         lc == IF spawned
               THEN [loc EXCEPT ![i] = [j \in 1..n |-> NewLocaleTask]]
               ELSE loc
         q  == IF spawned THEN queue \o [j \in 1..n |-> <<"loc", i, j>>] ELSE queue
         d  == Dispatch(it, lc, q)
     IN  item' = d.item /\ loc' = d.loc /\ queue' = d.queue
  /\ UNCHANGED <<impl, browser, extRoot, extDir, gefPc, gefResult>>
  /\ UNCHANGED notGefVars

\* A filesystem call of a locale task completes.
LocaleStep(i, j) ==
  /\ loc[i][j].pc \in LocaleOpPcs
  /\ LET d == Dispatch(item, [loc EXCEPT ![i][j] = LocaleAfterOp(i, j)], queue)
     IN  item' = d.item /\ loc' = d.loc /\ queue' = d.queue
  /\ UNCHANGED <<impl, browser, extRoot, extDir, gefPc, gefResult>>
  /\ UNCHANGED notGefVars

\* Promise.all over the locale tasks of entry i resolves.
LocalesSettled(i) ==
  /\ item[i].pc = "awaitLocales"
  /\ \A j \in 1..Len(loc[i]) : loc[i][j].pc = "done"
  /\ LET d == Dispatch([item EXCEPT ![i] = AfterLocales(i)], loc, queue)
     IN  item' = d.item /\ loc' = d.loc /\ queue' = d.queue
  /\ UNCHANGED <<impl, browser, extRoot, extDir, gefPc, gefResult>>
  /\ UNCHANGED notGefVars

\* The records kept, the last one first.
RECURSIVE NonNullReversed(_)
NonNullReversed(outs) ==
  IF outs = <<>> THEN <<>> ELSE NonNullReversed(Tail(outs)) \o Head(outs)

\* results.filter((result) => result !== null)
RECURSIVE NonNull(_)
NonNull(outs) ==
  IF outs = <<>> THEN <<>> ELSE Head(outs) \o NonNull(Tail(outs))

\* The outer Promise.all settles: it rejects with the first task that threw,
\* and resolves once every task has returned.
GefSettle ==
  /\ gefPc = "running"
  /\ IF \E i \in DOMAIN item : item[i].pc = "rejected"
     THEN gefPc' = "threw" /\ UNCHANGED gefResult
     ELSE /\ \A i \in DOMAIN item : item[i].pc = "done"
          /\ gefPc' = "returned"
          /\ gefResult' = NonNull([i \in DOMAIN item |-> item[i].out])
  /\ UNCHANGED <<impl, browser, extRoot, extDir, item, loc, queue>>
  /\ UNCHANGED notGefVars

(***************************************************************************)
(* The filesystem                                                          *)
(*                                                                         *)
(* A node is a directory, a file or an archive being written.  data is the *)
(* set of <<relative path, content>> pairs a node holds: one pair with the *)
(* empty path for a file, the members for an archive, none for a           *)
(* directory.  closed is FALSE for an archive whose output stream has not  *)
(* been closed.                                                            *)
(***************************************************************************)
Dir(p) == [path |-> p, kind |-> "dir", data |-> {}, closed |-> TRUE]

File(p, content) == [path |-> p, kind |-> "file", data |-> {<<<<>>, content>>}, closed |-> TRUE]

Archive(p, members, closed) == [path |-> p, kind |-> "zip", data |-> members, closed |-> closed]

IsPrefix(p, q) == Len(p) <= Len(q) /\ SubSeq(q, 1, Len(p)) = p

Exists(f, p) == \E n \in f : n.path = p

NodeAt(f, p) == CHOOSE n \in f : n.path = p

IsDir(f, p) == \E n \in f : n.path = p /\ n.kind = "dir"

\* fs.mkdir(p, { recursive: true })
MkdirP(f, p) ==
  f \cup { Dir(SubSeq(p, 1, k)) : k \in { j \in 1..Len(p) : ~Exists(f, SubSeq(p, 1, j)) } }

\* fs.writeFile(p, content)
WriteFile(f, p, content) == { n \in f : n.path # p } \cup { File(p, content) }

\* fs.copyFile(src, dest)
CopyFile(f, src, dest) ==
  { n \in f : n.path # dest } \cup { [NodeAt(f, src) EXCEPT !.path = dest] }

\* fs.rm(p, { recursive: true, force: true })
RmRf(f, p) == { n \in f : ~IsPrefix(p, n.path) }

\* The names directory listings are made of, in the order fs.readdir gives
\* them.
DirOrder == <<"a.js", "b.js", "css", "img", "js", "lib", "manifest.json">>

\* fs.readdir(p)
ChildNames(f, p) ==
  LET Listed(name) == Exists(f, Append(p, name))
  IN  SelectSeq(DirOrder, Listed)

\* What is in the tree under p, as <<path relative to p, content>> pairs; a
\* directory has the content "dir".
ContentOfNode(n) == IF n.kind = "dir" THEN "dir" ELSE (CHOOSE m \in n.data : TRUE)[2]

TreeUnder(f, p) ==
  { <<SubSeq(n.path, Len(p) + 1, Len(n.path)), ContentOfNode(n)>> :
      n \in { x \in f : IsPrefix(p, x.path) /\ x.path # p } }

\* The entries archive.directory(p, false) walks, in its order.
RECURSIVE Walk(_, _, _)
RECURSIVE WalkNames(_, _, _, _)
WalkNames(f, p, rel, names) ==
  IF names = <<>> THEN <<>>
  ELSE LET q == Append(p, Head(names))
           r == Append(rel, Head(names))
       IN  <<<<r, ContentOfNode(NodeAt(f, q))>>>>
           \o (IF IsDir(f, q) THEN Walk(f, q, r) ELSE <<>>)
           \o WalkNames(f, p, rel, Tail(names))
Walk(f, p, rel) == WalkNames(f, p, rel, ChildNames(f, p))

(***************************************************************************)
(* exportExtension: paths and names                                        *)
(***************************************************************************)
Letters ==
  {"a", "b", "c", "d", "e", "f", "g", "h", "i", "j", "k", "l", "m", "n", "o", "p", "q",
   "r", "s", "t", "u", "v", "w", "x", "y", "z", "A", "B", "C", "D", "E", "F", "G", "H",
   "I", "J", "K", "L", "M", "N", "O", "P", "Q", "R", "S", "T", "U", "V", "W", "X", "Y",
   "Z"}

\* index.ts: extension.name.replace(/[^a-zA-Z0-9._\-\s]/g, "_").trim()
SafeName(name) ==
  LET keep == Letters \cup { Digits[i] : i \in 1..Len(Digits) } \cup {".", "_", "-", " "}
  IN  Trim([i \in 1..Len(name) |-> IF name[i] \in keep THEN name[i] ELSE "_"])

\* process.cwd()
Cwd == <<"cwd">>

\* path.join(process.cwd(), "exports", sourceBrowser), and the
\* "exported_extensions" of index.ts
ExportDir(b) ==
  <<"cwd", IF impl = "index" THEN "exported_extensions" ELSE "exports", b>>

\* The working copy made in place: the directory the extension is installed
\* in.
WorkDirInPlace(b, ext) == ext.folderPath

\* tempDir: path.join(exportDir, extension.id); in index.ts
\* `${safeName}_temp` for Firefox and outputDir, safeName, otherwise
WorkDir(b, ext) ==
  Append(ExportDir(b),
         IF impl = "service" THEN Str(ext.id)
         ELSE IF b = "firefox" THEN Str(SafeName(ext.name[2])) \o "_temp"
         ELSE Str(SafeName(ext.name[2])))

\* zipPath: `${extension.name}-${extension.version}.zip`; in index.ts
\* xpiPath, `${safeName}.xpi`
ArchivePath(b, ext) ==
  Append(ExportDir(b),
         IF impl = "service"
         THEN Str(ext.name[2]) \o "-" \o Str(ext.version[2]) \o ".zip"
         ELSE Str(SafeName(ext.name[2])) \o ".xpi")

\* index.ts: unpackedDir, `${safeName}_unpacked`
UnpackedDir(b, ext) == Append(ExportDir(b), Str(SafeName(ext.name[2])) \o "_unpacked")

\* The text of a JSON value: a string in quotes, a number in digits.
JsonValue(v) == IF IsString(v) THEN "\"" \o Str(v[2]) \o "\"" ELSE Digits[v[2] + 1]

\* The members of the manifest m that JSON text carries, in key order: a key
\* whose value is undefined has no member.
JsonMembers(m) ==
  SelectSeq(<<<<"manifest_version", m.manifest_version>>, <<"name", m.name>>,
              <<"version", m.version>>, <<"description", m.description>>,
              <<"extra", m.extra>>>>,
            LAMBDA kv : kv[2] # Undef)

RECURSIVE JsonJoin(_, _, _)
JsonJoin(members, colon, comma) ==
  IF members = <<>> THEN ""
  ELSE "\"" \o members[1][1] \o "\"" \o colon \o JsonValue(members[1][2])
       \o (IF Len(members) = 1 THEN "" ELSE comma)
       \o JsonJoin(Tail(members), colon, comma)

\* Contents of manifest.json as installed: the manifest m written without
\* white space.
InstalledManifest(m) == "{" \o JsonJoin(JsonMembers(m), ":", ",") \o "}"

\* Contents of manifest.json as index.ts writes it,
\* JSON.stringify(convertedManifest, null, 2).
StringifiedManifest(m) ==
  IF JsonMembers(m) = <<>> THEN "{}"
  ELSE "{\n  " \o JsonJoin(JsonMembers(m), ": ", ",\n  ") \o "\n}"

(***************************************************************************)
(* Failing filesystem calls                                                *)
(*                                                                         *)
(* fault names a kind of call and which call of that kind fails, counted   *)
(* in the order the calls complete: "mkdir", "readdir", "stat", "copyFile",*)
(* "writeFile", "append" (the archiver fails reading or compressing an     *)
(* entry), "open" (the output stream of the archive fails) or "rm".        *)
(***************************************************************************)
NoFault == [op |-> "none", at |-> 0]

\* The call of kind op that completes now fails.
Fails(op) == fault.op = op /\ ex.n + 1 = fault.at

\* ex once a call of kind op has completed.
Counted(e, op) == IF fault.op = op THEN [e EXCEPT !.n = e.n + 1] ELSE e

\* exportExtension is not in progress.  calls counts the exports of the
\* record that have resolved before, and first is what the first of them
\* left under exports/<browser>.
ExIdle ==
  [pc |-> "idle", todo |-> <<>>, n |-> 0, err |-> "", held |-> 0, calls |-> 0, first |-> {}]

ExpIdle == fs = {} /\ exExt = <<>> /\ ex = ExIdle /\ copy = <<>> /\ fault = NoFault

\* run() has not been called.
RunIdle ==
  run = [pc |-> "idle", installed |-> <<>>, found |-> 0, unreadable |-> {},
         selected |-> <<>>, settled |-> <<>>, log |-> <<>>, cancelled |-> ""]

\* getBrowserProfiles has not been called.
GbpIdle ==
  gbp = [pc |-> "idle", platform |-> "", base |-> "", listing |-> <<>>, pi |-> 0,
         todo |-> <<>>, task |-> <<>>, profiles |-> <<>>, err |-> "", round |-> 0,
         first |-> <<>>]

(***************************************************************************)
(* copyDirectory                                                           *)
(*                                                                         *)
(* copy is the list of copyDirectory calls (kind "dir") and, for index.ts, *)
(* of the per-item functions handed to this.limit (kind "item").  For      *)
(* utils/fs.ts the list is the stack of the nested calls, the innermost    *)
(* last.  pc of a call: "mkdir", "readdir", then "items" (utils/fs.ts: in  *)
(* its loop, todo the entries left, the first one in progress), "copyFile",*)
(* or "await" (index.ts: in Promise.all); pc of a per-item function:       *)
(* "queued", "stat", "copyFile", "awaitDir"; both end "done" or "failed".  *)
(***************************************************************************)
CopyUnit(kind, src, dest, pc, parent) ==
  [kind |-> kind, src |-> src, dest |-> dest, pc |-> pc, todo |-> <<>>, parent |-> parent]

\* copyDirectory(src, dest) is called: it awaits fs.mkdir(dest).
StartCopy(src, dest) == <<CopyUnit("dir", src, dest, "mkdir", 0)>>

\* utils/fs.ts: the loop over the entries runs to its next await: a nested
\* call for a directory, fs.copyFile for a file, the return to the caller
\* when no entry is left.
RECURSIVE Advance(_, _)
Advance(f, stack) ==
  IF stack = <<>> THEN <<>>
  ELSE LET top == stack[Len(stack)]
           below == SubSeq(stack, 1, Len(stack) - 1)
       IN  IF top.pc # "items" THEN stack
           ELSE IF top.todo = <<>>
           THEN IF below = <<>> THEN <<>>
                ELSE Advance(f, [below EXCEPT ![Len(below)].todo = Tail(@)])
           ELSE IF IsDir(f, Append(top.src, Head(top.todo)))
           THEN Append(stack, CopyUnit("dir", Append(top.src, Head(top.todo)),
                                       Append(top.dest, Head(top.todo)), "mkdir", 0))
           ELSE [stack EXCEPT ![Len(stack)].pc = "copyFile"]

\* index.ts: the per-item functions of call k.
ItemsOf(us, k) == { j \in 1..Len(us) : us[j].kind = "item" /\ us[j].parent = k }

\* index.ts: Promise.all of a call settles (it rejects with the first item
\* that failed), and a per-item function ends with the nested call it awaits.
SettleOne(us, k) ==
  LET u == us[k]
  IN  IF u.kind = "dir" /\ u.pc = "await"
      THEN IF \E j \in ItemsOf(us, k) : us[j].pc = "failed" THEN [u EXCEPT !.pc = "failed"]
           ELSE IF \A j \in ItemsOf(us, k) : us[j].pc = "done" THEN [u EXCEPT !.pc = "done"]
           ELSE u
      ELSE IF u.kind = "item" /\ u.pc = "awaitDir"
      THEN LET nested == CHOOSE j \in 1..Len(us) : us[j].kind = "dir" /\ us[j].parent = k
           IN  IF us[nested].pc \in {"done", "failed"} THEN [u EXCEPT !.pc = us[nested].pc]
               ELSE u
      ELSE u

RECURSIVE Settle(_)
Settle(us) ==
  LET next == [k \in 1..Len(us) |-> SettleOne(us, k)]
  IN  IF next = us THEN us ELSE Settle(next)

\* index.ts: per-item functions that hold a slot of this.limit.
ActiveCopies(us) ==
  Cardinality({ k \in 1..Len(us) :
                  us[k].kind = "item" /\ us[k].pc \in {"stat", "copyFile", "awaitDir"} })

\* index.ts: this.limit starts queued per-item functions while a slot is
\* free; held slots are those of the callers of exportExtension.
RECURSIVE CopyDispatch(_, _, _)
CopyDispatch(us, q, held) ==
  IF q = <<>> \/ held + ActiveCopies(us) >= ConcurrencyLimit
  THEN [copy |-> us, queue |-> q]
  ELSE CopyDispatch([us EXCEPT ![Head(q)[2]].pc = "stat"], Tail(q), held)

\* The copyDirectory call exportExtension awaits has resolved.
CopyResolved(c) == IF impl = "service" THEN c = <<>> ELSE c[1].pc = "done"

\* The copyDirectory call exportExtension awaits has rejected.
CopyRejected(c) ==
  IF impl = "service" THEN c # <<>> /\ c[Len(c)].pc = "failed" ELSE c[1].pc = "failed"

\* What exportExtension does when the copyDirectory call it awaits settles.
AfterCopy(e, c) ==
  IF e.pc \notin {"copy", "copyUnpacked"} THEN e
  ELSE IF CopyResolved(c)
  THEN [e EXCEPT !.pc = IF impl = "service" THEN "zipOpen"
                        ELSE IF e.pc = "copy" THEN "writeManifest" ELSE "rm"]
  ELSE IF CopyRejected(c) THEN [e EXCEPT !.pc = "rejected", !.err = "copy"]
  ELSE e

\* utils/fs.ts copyDirectory: the call of the innermost copyDirectory that
\* is in progress completes.
ServiceCopyAfter(k) ==
  LET u    == copy[k]
      from == Append(u.src, Head(u.todo))
      to   == Append(u.dest, Head(u.todo))
      f    == IF Fails(u.pc) THEN fs
              ELSE IF u.pc = "mkdir" THEN MkdirP(fs, u.dest)
              ELSE IF u.pc = "copyFile" THEN CopyFile(fs, from, to)
              ELSE fs
      c    == IF Fails(u.pc) THEN [copy EXCEPT ![k].pc = "failed"]
              ELSE IF u.pc = "mkdir" THEN [copy EXCEPT ![k].pc = "readdir"]
              ELSE IF u.pc = "readdir"
              THEN Advance(f, [copy EXCEPT ![k].pc = "items",
                                           ![k].todo = ChildNames(fs, u.src)])
              ELSE Advance(f, [copy EXCEPT ![k].pc = "items", ![k].todo = Tail(@)])
  IN  [fs |-> f, copy |-> c, queue |-> queue]

\* index.ts copyDirectory: a call of a copyDirectory call or of a per-item
\* function completes.
IndexCopyAfter(k) ==
  LET u     == copy[k]
      names == ChildNames(fs, u.src)
      f     == IF Fails(u.pc) THEN fs
               ELSE IF u.pc = "mkdir" THEN MkdirP(fs, u.dest)
               ELSE IF u.pc = "copyFile" THEN CopyFile(fs, u.src, u.dest)
               ELSE fs
      c     == IF Fails(u.pc) THEN [copy EXCEPT ![k].pc = "failed"]
               ELSE IF u.pc = "mkdir" THEN [copy EXCEPT ![k].pc = "readdir"]
               ELSE IF u.pc = "readdir"
               THEN [copy EXCEPT ![k].pc = IF names = <<>> THEN "done" ELSE "await"]
                    \o [j \in 1..Len(names) |->
                          CopyUnit("item", Append(u.src, names[j]),
                                   Append(u.dest, names[j]), "queued", k)]
               ELSE IF u.pc = "stat"
               THEN IF IsDir(fs, u.src)
                    THEN Append([copy EXCEPT ![k].pc = "awaitDir"],
                                CopyUnit("dir", u.src, u.dest, "mkdir", k))
                    ELSE [copy EXCEPT ![k].pc = "copyFile"]
               ELSE [copy EXCEPT ![k].pc = "done"]
      q     == IF u.pc = "readdir" /\ ~Fails(u.pc)
               THEN queue \o [j \in 1..Len(names) |-> <<"copy", Len(copy) + j, 0>>]
               ELSE queue
      d     == CopyDispatch(Settle(c), q, ex.held)
  IN  [fs |-> f, copy |-> d.copy, queue |-> d.queue]

CopyOpPcs == {"mkdir", "readdir", "stat", "copyFile"}

\* One filesystem call of the copy completes.
CopyStep(k) ==
  /\ copy[k].pc \in CopyOpPcs
  /\ impl = "service" => k = Len(copy)
  /\ LET r == IF impl = "service" THEN ServiceCopyAfter(k) ELSE IndexCopyAfter(k)
     IN  /\ fs' = r.fs
         /\ copy' = r.copy
         /\ queue' = r.queue
         /\ ex' = AfterCopy(Counted(ex, copy[k].pc), r.copy)
  /\ UNCHANGED <<impl, browser, exExt, fault>>
  /\ UNCHANGED notExpVars

(***************************************************************************)
(* exportExtension and createZipArchive                                    *)
(*                                                                         *)
(* ex.pc names the call exportExtension awaits: "mkdirExport", "mkdirWork",*)
(* "copy", "writeManifest" (index.ts), "zipOpen" (createWriteStream),      *)
(* "zipAppend" (the archiver adds the entries, ex.todo those left),        *)
(* "zipClose" (the output stream closes), "copyUnpacked" (index.ts), "rm"; *)
(* it ends "resolved" or "rejected", or "crashed".                         *)
(*                                                                         *)
(* createZipArchive listens to 'close' of the output stream and to 'error' *)
(* of the archiver, not to 'error' of the output stream.  What an error of *)
(* the output stream does is left to the stream library behind             *)
(* archive.pipe(output): its handler emits the error again and, with no    *)
(* listener left, the error is an uncaught exception and the promise never *)
(* settles ("crashed"); or its handler destroys the stream that is already *)
(* destroyed, and the 'close' that follows the error resolves the promise  *)
(* ("closed").  In neither case does the promise reject.                   *)
(***************************************************************************)
OutputErrorOutcomes == {"crashed", "closed"}

ExportOpPcs ==
  {"called", "mkdirExport", "mkdirWork", "writeManifest", "zipOpen", "zipAppend",
   "zipClose", "rm"}

Rejected(e, op, stage) == [Counted(e, op) EXCEPT !.pc = "rejected", !.err = stage]

ExportAfter(outcome) ==
  LET ext  == exExt[1]
      work == WorkDir(browser, ext)
      zip  == ArchivePath(browser, ext)
      same == [fs |-> fs, ex |-> ex, copy |-> copy]
  IN  CASE ex.pc = "called" ->
             IF impl = "index" /\ browser \notin ConfiguredBrowsers
             THEN [same EXCEPT !.ex = Rejected(ex, "none", "config")]
             ELSE [same EXCEPT !.ex.pc = "mkdirExport"]
        []  ex.pc = "mkdirExport" ->
             IF Fails("mkdir") THEN [same EXCEPT !.ex = Rejected(ex, "mkdir", "mkdir")]
             ELSE [same EXCEPT !.fs = MkdirP(fs, ExportDir(browser)),
                               !.ex = [Counted(ex, "mkdir") EXCEPT !.pc = "mkdirWork"]]
        []  ex.pc = "mkdirWork" ->
             IF Fails("mkdir") THEN [same EXCEPT !.ex = Rejected(ex, "mkdir", "mkdir")]
             ELSE [fs |-> MkdirP(fs, work),
                   ex |-> [Counted(ex, "mkdir") EXCEPT !.pc = "copy"],
                   copy |-> StartCopy(ext.folderPath, work)]
        []  ex.pc = "writeManifest" ->
             IF Fails("writeFile")
             THEN [same EXCEPT !.ex = Rejected(ex, "writeFile", "writeFile")]
             ELSE [same EXCEPT
                     !.fs = WriteFile(fs, Append(work, "manifest.json"),
                                     StringifiedManifest(ext.manifest)),
                     !.ex = [Counted(ex, "writeFile") EXCEPT
                               !.pc = IF browser = "firefox" THEN "zipOpen" ELSE "resolved"]]
        []  ex.pc = "zipOpen" ->
             IF Fails("open")
             THEN IF outcome = "crashed"
                  THEN [same EXCEPT !.ex = [Counted(ex, "open") EXCEPT !.pc = "crashed",
                                                                    !.err = "output"]]
                  ELSE [fs |-> fs,
                        ex |-> [Counted(ex, "open") EXCEPT
                                  !.pc = IF impl = "service" THEN "rm" ELSE "copyUnpacked",
                                  !.err = "output"],
                        copy |-> IF impl = "service" THEN copy
                                 ELSE StartCopy(work, UnpackedDir(browser, ext))]
             ELSE LET entries == Walk(fs, work, <<>>)
                  IN  [same EXCEPT
                         !.fs = { n \in fs : n.path # zip } \cup { Archive(zip, {}, FALSE) },
                         !.ex = [Counted(ex, "open") EXCEPT
                                   !.pc = IF entries = <<>> THEN "zipClose" ELSE "zipAppend",
                                   !.todo = entries]]
        []  ex.pc = "zipAppend" ->
             IF Fails("append") THEN [same EXCEPT !.ex = Rejected(ex, "append", "archive")]
             ELSE [same EXCEPT
                     !.fs = { n \in fs : n.path # zip }
                            \cup { Archive(zip, NodeAt(fs, zip).data \cup {Head(ex.todo)}, FALSE) },
                     !.ex = [Counted(ex, "append") EXCEPT
                               !.pc = IF Tail(ex.todo) = <<>> THEN "zipClose" ELSE "zipAppend",
                               !.todo = Tail(ex.todo)]]
        []  ex.pc = "zipClose" ->
             [fs |-> { n \in fs : n.path # zip }
                     \cup { Archive(zip, NodeAt(fs, zip).data, TRUE) },
              ex |-> [ex EXCEPT !.pc = IF impl = "service" THEN "rm" ELSE "copyUnpacked"],
              copy |-> IF impl = "service" THEN copy
                       ELSE StartCopy(work, UnpackedDir(browser, ext))]
        []  ex.pc = "rm" ->
             IF Fails("rm") THEN [same EXCEPT !.ex = Rejected(ex, "rm", "rm")]
             ELSE [same EXCEPT !.fs = RmRf(fs, work),
                               !.ex = [Counted(ex, "rm") EXCEPT !.pc = "resolved"]]

\* The call exportExtension awaits completes (the copy apart).
ExportStep ==
  /\ ex.pc \in ExportOpPcs
  /\ \E outcome \in OutputErrorOutcomes :
       LET r == ExportAfter(outcome)
       IN  fs' = r.fs /\ ex' = r.ex /\ copy' = r.copy
  /\ UNCHANGED <<impl, browser, queue, exExt, fault>>
  /\ UNCHANGED notExpVars

(***************************************************************************)
(* The extensions directories the discovery is run on                      *)
(***************************************************************************)
\* A directory entry of extPath.  kind is what fs.stat reports ("file" also
\* stands for an entry stat fails on); listable tells whether fs.readdir of
\* the entry succeeds; subs are the entries of an extension-id directory;
\* manifest and locales are the payload of a Firefox entry.
FileEntry ==
  [kind |-> "file", listable |-> FALSE, subs |-> <<>>,
   manifest |-> ManifestFile("missing", NoJson), locales |-> NoLocales]

FirefoxEntry(c) ==
  [kind |-> "dir", listable |-> TRUE, subs |-> <<>>,
   manifest |-> c.manifest, locales |-> c.locales]

ChromiumEntry(listable, subs) ==
  [kind |-> "dir", listable |-> listable, subs |-> subs,
   manifest |-> ManifestFile("missing", NoJson), locales |-> NoLocales]

\* An entry of an extension-id directory.
VersionSub(name, kind, c) ==
  [name |-> name, kind |-> kind, manifest |-> c.manifest, locales |-> c.locales]

Payload(manifest, locales) == [manifest |-> manifest, locales |-> locales]

ExtName == <<"E", "x", "t">>

MsgName == <<"_", "_", "M", "S", "G", "_", "k", "_", "_">>

\* A well-formed manifest of the given version.
GoodManifest(version) == Manifest(NumVal(3), StrVal(ExtName), StrVal(version), Undef, Undef)

LocalizedManifest == Manifest(NumVal(3), StrVal(MsgName), StrVal(<<"1", ".", "0">>), Undef, Undef)

PlainManifests ==
  { GoodManifest(<<"1", ".", "0">>),
    Manifest(NumVal(2), StrVal(<<"A", "/", "B", " ">>), StrVal(<<"2">>),
             StrVal(<<"d">>), StrVal(<<"x">>)),
    Manifest(NumVal(4), StrVal(ExtName), StrVal(<<"1">>), Undef, Undef),
    Manifest(NumVal(3), StrVal(ExtName), Undef, Undef, Undef),
    Manifest(NumVal(3), Undef, StrVal(<<"1">>), Undef, Undef),
    Manifest(NumVal(3), NumVal(7), StrVal(<<"1">>), Undef, Undef),
    Manifest(NumVal(3), StrVal(<<>>), StrVal(<<"1">>), Undef, Undef),
    Manifest(NumVal(3), StrVal(ExtName), StrVal(<<"1">>), NumVal(1), Undef) }

ManifestFiles ==
  { ManifestFile(st, NoJson) : st \in {"missing", "unreadable", "badjson", "null"} }
  \cup { ManifestFile("object", m) : m \in PlainManifests }

Widget == StrVal(<<"W", "i", "d", "g", "e", "t">>)

Werkzeug == StrVal(<<"W", "e", "r", "k">>)

LocalesDirs ==
  { NoLocales,
    LocalesDir("unlistable", <<>>),
    LocalesDir("listed", <<>>),
    LocalesDir("listed", <<LocaleEntry("en", "object", Widget)>>),
    LocalesDir("listed", <<LocaleEntry("de", "object", Werkzeug),
                           LocaleEntry("en", "object", Widget)>>),
    LocalesDir("listed", <<LocaleEntry("de", "badjson", Undef),
                           LocaleEntry("en", "object", Widget)>>),
    LocalesDir("listed", <<LocaleEntry("de", "missing", Undef),
                           LocaleEntry("en", "unreadable", Undef)>>),
    LocalesDir("listed", <<LocaleEntry("de", "object", Undef),
                           LocaleEntry("en", "object", NumVal(5))>>),
    LocalesDir("listed", <<LocaleEntry("de", "object", Undef)>>) }

Payloads ==
  { Payload(f, NoLocales) : f \in ManifestFiles }
  \cup { Payload(ManifestFile("object", LocalizedManifest), l) : l \in LocalesDirs }

\* One entry holding the payload c: the extension directory itself for
\* Firefox, an extension-id directory with the one version 1.0 otherwise.
EntryOf(b, c) ==
  IF b = "firefox" THEN FirefoxEntry(c)
  ELSE ChromiumEntry(TRUE, <<VersionSub(<<"1", ".", "0">>, "dir", c)>>)

VersionDirNames ==
  { <<"1", ".", "0">>, <<"1", ".", "1">>, <<"1", ".", "2">>, <<"1", ".", "1", "0">>,
    <<"1", ".", "2", ".", "0">> }

\* What an entry of an extension-id directory can be: a version directory
\* with a well-formed manifest of that version, one with a manifest that is
\* not JSON, or a plain file.
VersionSubs ==
  UNION { { VersionSub(v, "dir", Payload(ManifestFile("object", GoodManifest(v)), NoLocales)),
            VersionSub(v, "dir", Payload(ManifestFile("badjson", NoJson), NoLocales)),
            VersionSub(v, "file", Payload(ManifestFile("missing", NoJson), NoLocales)) }
          : v \in VersionDirNames }

MaxVersions == 3

\* Listings of an extension-id directory: at most MaxVersions entries with
\* different names.
RECURSIVE SubLists(_)
SubLists(n) ==
  IF n = 0 THEN { <<>> }
  ELSE LET shorter == SubLists(n - 1)
       IN  shorter \cup
           { Append(l, x) : <<l, x>> \in
               { p \in shorter \X VersionSubs :
                   /\ Len(p[1]) = n - 1
                   /\ \A k \in 1..Len(p[1]) : p[1][k].name # p[2].name } }

\* The entries of the listings with several extensions.
WideEntries(b) ==
  { FileEntry }
  \cup { EntryOf(b, Payload(f, NoLocales)) :
           f \in { ManifestFile("missing", NoJson), ManifestFile("unreadable", NoJson),
                   ManifestFile("badjson", NoJson),
                   ManifestFile("object", GoodManifest(<<"1", ".", "0">>)),
                   ManifestFile("object", Manifest(NumVal(4), StrVal(ExtName),
                                                   StrVal(<<"1">>), Undef, Undef)) } }

MaxItems == 2

RECURSIVE EntryLists(_, _)
EntryLists(b, n) ==
  IF n = 0 THEN { <<>> }
  ELSE LET shorter == EntryLists(b, n - 1)
       IN  shorter \cup
           { Append(l, x) : <<l, x>> \in
               { p \in shorter \X WideEntries(b) : Len(p[1]) = n - 1 } }

ManyItems == 6

\* The comparator is not in use.
CmpIdle == verA = <<>> /\ verB = <<>> /\ cmpAB = <<>>

(***************************************************************************)
(* SpecDiscover: one call of getExtensionsFromProfile(ProfilePath, browser) *)
(***************************************************************************)
InitDiscover ==
  /\ impl \in Impls
  /\ CmpIdle
  /\ ExpIdle
  /\ RunIdle
  /\ GbpIdle
  /\ val = <<>>
  /\ gefPc = "called"
  /\ gefResult = <<>>
  /\ item = <<>>
  /\ loc = <<>>
  /\ queue = <<>>
  /\ \/ \* no listing: the directory is absent or unreadable, or the browser unknown
        /\ browser \in ConfiguredBrowsers \cup {"safari"}
        /\ extRoot \in {"absent", "unlistable", "listed"}
        /\ extDir = <<>>
     \/ \* one extension-id directory and its version subdirectories
        /\ browser = "chrome"
        /\ extRoot = "listed"
        /\ \E subs \in SubLists(MaxVersions) : extDir = <<ChromiumEntry(TRUE, subs)>>
     \/ \* one extension-id directory that cannot be listed
        /\ browser = "chrome"
        /\ extRoot = "listed"
        /\ extDir = <<ChromiumEntry(FALSE, <<>>)>>
     \/ \* one extension, every payload
        /\ browser \in {"chrome", "firefox"}
        /\ extRoot = "listed"
        /\ \E c \in Payloads : extDir = <<EntryOf(browser, c)>>
     \/ \* several extensions, good and bad
        /\ browser \in {"chrome", "firefox"}
        /\ extRoot = "listed"
        /\ extDir \in EntryLists(browser, MaxItems)
     \/ \* many extensions alike
        /\ browser = "firefox"
        /\ extRoot = "listed"
        /\ \E f \in { ManifestFile("object", GoodManifest(<<"1", ".", "0">>)),
                      ManifestFile("object", LocalizedManifest) } :
             extDir = [i \in 1..ManyItems |->
                         FirefoxEntry(Payload(f, LocalesDir("listed",
                                        <<LocaleEntry("en", "object", Widget)>>)))]

NextDiscover ==
  \/ GefStart
  \/ GefListed
  \/ GefSpawn
  \/ \E i \in DOMAIN item : ItemStep(i)
  \/ \E i \in DOMAIN loc : \E j \in DOMAIN loc[i] : LocaleStep(i, j)
  \/ \E i \in DOMAIN item : LocalesSettled(i)
  \/ GefSettle

SpecDiscover == InitDiscover /\ [][NextDiscover]_vars

(***************************************************************************)
(* SpecExport: one call of exportExtension(extension, browser)             *)
(***************************************************************************)
\* Installed extensions with the manifest m, as trees of <<relative path,
\* content>>.
SourceTrees(m) ==
  LET manifest == <<<<"manifest.json">>, InstalledManifest(m)>>
  IN  { { manifest },
        { manifest, <<<<"a.js">>, "a">> },
        { manifest, <<<<"img">>, "dir">> },
        { manifest, <<<<"js">>, "dir">>, <<<<"js", "a.js">>, "a">> },
        { manifest, <<<<"a.js">>, "a">>, <<<<"js">>, "dir">>, <<<<"js", "lib">>, "dir">>,
          <<<<"js", "lib", "b.js">>, "b">> } }

\* An installed extension with four subdirectories of one file each.
WideTree(m) ==
  { <<<<"manifest.json">>, InstalledManifest(m)>> }
  \cup UNION { { <<<<d>>, "dir">>, <<<<d, "a.js">>, "a">> } : d \in {"css", "img", "js", "lib"} }

\* The filesystem with the tree at base and nothing exported yet.
InitialFs(base, tree) ==
  { Dir(Cwd) }
  \cup { Dir(SubSeq(base, 1, k)) : k \in 1..Len(base) }
  \cup { IF t[2] = "dir" THEN Dir(base \o t[1]) ELSE File(base \o t[1], t[2]) : t \in tree }

\* extensionDir of the discovered extension ItemId(i).
InstalledAt(b, i) ==
  IF IsChromium(b)
  THEN PathJoin(PathJoin(PathJoin(ProfilePath, ExtensionPath(b)), Str(ItemId(i))), "1.0")
  ELSE PathJoin(PathJoin(ProfilePath, ExtensionPath(b)), Str(ItemId(i)))

ExportNames == { ExtName, <<"M", "y", " ", "E", "x", "t", "!">> }

\* The record of the extension ItemId(i) named name, as discovery makes it.
RecordOf(b, name, i) ==
  ExtensionInfo(ItemId(i), StrVal(name),
                Manifest(NumVal(3), StrVal(name), StrVal(<<"1", ".", "0">>), Undef, Undef),
                InstalledAt(b, i))

FaultOps == {"mkdir", "readdir", "stat", "copyFile", "writeFile", "open", "append", "rm"}

MaxFaultAt == 2

Faults == { NoFault } \cup { [op |-> o, at |-> a] : o \in FaultOps, a \in 1..MaxFaultAt }

\* The discovery is not in progress.
DiscoveryIdle ==
  /\ extRoot = "absent"
  /\ extDir = <<>>
  /\ gefPc = "idle"
  /\ gefResult = <<>>
  /\ item = <<>>
  /\ loc = <<>>

InitExport ==
  /\ impl \in Impls
  /\ CmpIdle
  /\ DiscoveryIdle
  /\ RunIdle
  /\ GbpIdle
  /\ val = <<>>
  /\ queue = <<>>
  /\ copy = <<>>
  /\ \/ /\ browser \in {"chrome", "firefox"}
        /\ fault \in Faults
        /\ \E held \in {0, 1} : ex = [ExIdle EXCEPT !.pc = "called", !.held = held]
        /\ \E name \in ExportNames : exExt = <<RecordOf(browser, name, 1)>>
        /\ \E tree \in SourceTrees(exExt[1].manifest) :
             fs = InitialFs(InstalledAt(browser, 1), tree)
     \/ /\ browser = "safari"
        /\ fault = NoFault
        /\ ex = [ExIdle EXCEPT !.pc = "called"]
        /\ exExt = <<RecordOf(browser, ExtName, 1)>>
        /\ \E tree \in SourceTrees(exExt[1].manifest) :
             fs = InitialFs(InstalledAt(browser, 1), tree)
     \/ \* an extension with four subdirectories, exported from run()
        /\ browser = "chrome"
        /\ fault = NoFault
        /\ ex = [ExIdle EXCEPT !.pc = "called", !.held = 1]
        /\ exExt = <<RecordOf(browser, ExtName, 1)>>
        /\ fs = InitialFs(InstalledAt(browser, 1), WideTree(exExt[1].manifest))

NextExport ==
  \/ ExportStep
  \/ \E k \in DOMAIN copy : CopyStep(k)

SpecExport == InitExport /\ [][NextExport]_vars

(***************************************************************************)
(* SpecTwice: exportExtension(extension, browser) called again with the    *)
(* same record once the first call has resolved                            *)
(***************************************************************************)
\* What is under exports/<browser>.
ExportedNodes(f) == { n \in f : IsPrefix(ExportDir(browser), n.path) }

ExportAgain ==
  /\ ex.pc = "resolved"
  /\ ex.calls = 0
  /\ ex' = [ExIdle EXCEPT !.pc = "called", !.held = ex.held, !.calls = 1,
                          !.first = ExportedNodes(fs)]
  /\ copy' = <<>>
  /\ UNCHANGED <<impl, browser, queue, fs, exExt, fault>>
  /\ UNCHANGED notExpVars

NextTwice ==
  \/ ExportStep
  \/ \E k \in DOMAIN copy : CopyStep(k)
  \/ ExportAgain

SpecTwice == InitExport /\ [][NextTwice]_vars

(***************************************************************************)
(* SpecFoundExport: getExtensionsFromProfile(ProfilePath, browser) on one  *)
(* installed extension, then exportExtension of the record it returned     *)
(***************************************************************************)
\* run(): the record the discovery returned is handed to exportExtension.
ExportFound ==
  /\ gefPc = "returned"
  /\ gefResult # <<>>
  /\ ex = ExIdle
  /\ exExt' = <<gefResult[1]>>
  /\ ex' = [ExIdle EXCEPT !.pc = "called"]
  /\ UNCHANGED <<impl, browser, queue, fs, copy, fault>>
  /\ UNCHANGED notExpVars

\* A _locales directory with the one bundle en, as the discovery and as the
\* export see it.
EnglishBundle == LocalesDir("listed", <<LocaleEntry("en", "object", Widget)>>)

EnglishBundleTree ==
  { <<<<"_locales">>, "dir">>, <<<<"_locales", "en">>, "dir">>,
    <<<<"_locales", "en", "messages.json">>, "messages">> }

\* The installed extension ItemId(1): the manifest.json on disk is the text
\* of the manifest the discovery will parse.
InitFoundExport ==
  /\ impl \in Impls
  /\ CmpIdle
  /\ RunIdle
  /\ GbpIdle
  /\ val = <<>>
  /\ gefPc = "called"
  /\ gefResult = <<>>
  /\ item = <<>>
  /\ loc = <<>>
  /\ queue = <<>>
  /\ browser \in {"chrome", "firefox"}
  /\ extRoot = "listed"
  /\ \/ \E m \in PlainManifests :
          /\ extDir = <<EntryOf(browser, Payload(ManifestFile("object", m), NoLocales))>>
          /\ \E tree \in SourceTrees(m) : fs = InitialFs(InstalledAt(browser, 1), tree)
     \/ /\ extDir = <<EntryOf(browser, Payload(ManifestFile("object", LocalizedManifest),
                                                EnglishBundle))>>
        /\ \E tree \in SourceTrees(LocalizedManifest) :
             fs = InitialFs(InstalledAt(browser, 1), tree \cup EnglishBundleTree)
  /\ exExt = <<>>
  /\ ex = ExIdle
  /\ copy = <<>>
  /\ fault = NoFault

NextFoundExport ==
  \/ GefStart
  \/ GefListed
  \/ GefSpawn
  \/ \E i \in DOMAIN item : ItemStep(i)
  \/ \E i \in DOMAIN loc : \E j \in DOMAIN loc[i] : LocaleStep(i, j)
  \/ \E i \in DOMAIN item : LocalesSettled(i)
  \/ GefSettle
  \/ ExportFound
  \/ ExportStep
  \/ \E k \in DOMAIN copy : CopyStep(k)

SpecFoundExport == InitFoundExport /\ [][NextFoundExport]_vars

(***************************************************************************)
(* run(): the prompts and the batch of exports                             *)
(*                                                                         *)
(* getBrowserProfiles and getExtensionsFromProfile read the filesystem and *)
(* write nothing; run() is modelled with what they return: installed, the  *)
(* browsers that have a profile, and found, the number of extensions of    *)
(* the profile.  An answer of a prompt is Cancel, Picked(v) for one option,*)
(* or PickedSeveral(list): run() accepts an array from the extension       *)
(* prompt (Array.isArray).  One exportExtension call is one step here, of  *)
(* an extension whose source directory can or cannot be read.  The        *)
(* profiles are those found when the browsers were looked for, so that the *)
(* second getBrowserProfiles never returns an empty list.                  *)
(***************************************************************************)
\* The cancel symbol of @clack/prompts, and the values of the options.
Cancel == <<"cancel">>

Picked(v) == <<"value", v>>

PickedSeveral(vs) == <<"array", vs>>

\* isCancel(value) of a prompt that is never told a cancellation.
NeverCancel(v) == FALSE

\* isCancel(value)
IsCancel(v) == v = Cancel

\* Array.isArray(selectedExtensions) ? selectedExtensions : [selectedExtensions]
ExtensionsArray(v) == IF v[1] = "array" THEN v[2] ELSE <<v>>

\* copyDirectory(src, dest), completed.
CopyDirectory(f, src, dest) ==
  LET copied == { [n EXCEPT !.path = dest \o SubSeq(n.path, Len(src) + 1, Len(n.path))] :
                    n \in { x \in f : IsPrefix(src, x.path) /\ x.path # src } }
  IN  { n \in MkdirP(f, dest) : \A m \in copied : m.path # n.path } \cup copied

\* createZipArchive(sourceDir, outputPath), completed.
CreateZipArchive(f, sourceDir, outputPath) ==
  { n \in f : n.path # outputPath } \cup { Archive(outputPath, TreeUnder(f, sourceDir), TRUE) }

\* exportExtension(v, b) from the filesystem f, as one step: the filesystem
\* it leaves and whether it resolved.  It rejects when v has no id or name
\* to make a path of, and when the source directory cannot be read (the
\* readdir of copyDirectory fails).
ExportExtension(f, b, v, readable) ==
  LET ext  == v[2]
      f1   == MkdirP(f, ExportDir(b))
      work == WorkDir(b, ext)
      f2   == MkdirP(f1, work)
      f3   == CopyDirectory(f2, ext.folderPath, work)
  IN  IF impl = "service"
      THEN IF v[1] # "value" THEN [fs |-> f1, ok |-> FALSE]
           ELSE IF ~readable THEN [fs |-> f2, ok |-> FALSE]
           ELSE [fs |-> RmRf(CreateZipArchive(f3, work, ArchivePath(b, ext)), work),
                 ok |-> TRUE]
      ELSE IF b \notin ConfiguredBrowsers \/ v[1] # "value" THEN [fs |-> f, ok |-> FALSE]
           ELSE IF ~readable THEN [fs |-> f2, ok |-> FALSE]
           ELSE LET f4 == WriteFile(f3, Append(work, "manifest.json"),
                                     StringifiedManifest(ext.manifest))
                    f5 == CreateZipArchive(f4, work, ArchivePath(b, ext))
                    f6 == CopyDirectory(f5, work, UnpackedDir(b, ext))
                IN  [fs |-> IF b = "firefox" THEN RmRf(f6, work) ELSE f4, ok |-> TRUE]

\* What run() logs about v: the name of the extension.
Subject(v) == IF v[1] = "value" THEN Str(v[2].name[2]) ELSE "undefined"

MaxFound == 3

RunBrowsers == {"chrome", "firefox"}

\* The extension ItemId(i) of the profile of browser b.
FoundName(i) == IF i = 2 THEN <<"M", "y", " ", "E", "x", "t", "!">> ELSE ExtName

Found(b, i) == RecordOf(b, FoundName(i), i)

RunTree(m) ==
  { <<<<"manifest.json">>, InstalledManifest(m)>>, <<<<"js">>, "dir">>,
    <<<<"js", "a.js">>, "a">> }

\* The filesystem run() starts from: the extensions installed in the
\* profiles, and nothing exported.
RunInitialFs ==
  UNION { InitialFs(InstalledAt(b, i), RunTree(Found(b, i).manifest)) :
            b \in RunBrowsers, i \in 1..MaxFound }

\* The lists of options a prompt can answer with several of.
RECURSIVE Selections(_, _)
Selections(b, n) ==
  IF n = 0 THEN { <<>> }
  ELSE LET rest == Selections(b, n - 1)
       IN  rest \cup { Append(l, Picked(Found(b, n))) : l \in rest }

\* run() leaves with the error e: index.ts catches it and logs it,
\* extension-exporter.ts rejects.
RunThrew(r, e) ==
  [r EXCEPT !.pc = IF impl = "index" THEN "returned" ELSE "rejected",
            !.log = Append(r.log, <<"error", e>>)]

RunReturned(r, kind, text) ==
  [r EXCEPT !.pc = "returned", !.log = Append(r.log, <<kind, text>>)]

\* run() is given v at a prompt: cancelled keeps the prompt the user
\* cancelled at.
Answered(r, v, prompt) == IF v = Cancel THEN [r EXCEPT !.cancelled = prompt] ELSE r

\* cancel("Operation cancelled"); return
RunCancelled(r) == RunReturned(r, "cancel", "Operation cancelled")

\* intro, and the browsers that have a profile.
RunStart ==
  /\ run.pc = "called"
  /\ run' = IF run.installed = <<>>
            THEN IF impl = "index"
                 THEN RunReturned(run, "error", "No supported browsers found")
                 ELSE RunThrew(run, "No supported browsers installed")
            ELSE [run EXCEPT !.pc = "selectBrowser"]
  /\ UNCHANGED <<browser, fs>>
  /\ UNCHANGED notRunVars

\* The browser prompt is answered; getBrowserProfiles(browser).
BrowserAnswered ==
  /\ run.pc = "selectBrowser"
  /\ \E v \in { Cancel } \cup { Picked(run.installed[k]) : k \in DOMAIN run.installed } :
       LET r == Answered(run, v, "browser")
       IN  IF IsCancel(v)
           THEN run' = RunCancelled(r) /\ UNCHANGED browser
           ELSE IF v \notin { Picked(b) : b \in ConfiguredBrowsers }
           THEN run' = RunThrew(r, "Unsupported browser") /\ UNCHANGED browser
           ELSE run' = [r EXCEPT !.pc = "selectProfile"] /\ browser' = v[2]
  /\ UNCHANGED fs
  /\ UNCHANGED notRunVars

\* The profile prompt is answered; getExtensionsFromProfile(profile, browser).
ProfileAnswered ==
  /\ run.pc = "selectProfile"
  /\ \E v \in { Cancel, Picked(ProfilePath) } :
       LET r == Answered(run, v, "profile")
       IN  run' = IF IsCancel(v) THEN RunCancelled(r)
                  ELSE IF v[1] # "value" THEN RunThrew(r, "TypeError: path.join")
                  ELSE IF run.found = 0 THEN RunReturned(r, "error", "No extensions found")
                  ELSE [r EXCEPT !.pc = "selectExtensions"]
  /\ UNCHANGED <<browser, fs>>
  /\ UNCHANGED notRunVars

\* The extension prompt is answered; the exports are started.
ExtensionsAnswered ==
  /\ run.pc = "selectExtensions"
  /\ \E v \in { Cancel } \cup { Picked(Found(browser, i)) : i \in 1..run.found }
                \cup { PickedSeveral(l) : l \in Selections(browser, run.found) \ { <<>> } } :
       LET r == Answered(run, v, "extensions")
       IN  run' = IF IsCancel(v) THEN RunCancelled(r)
                  ELSE [r EXCEPT !.pc = "exporting",
                                 !.selected = ExtensionsArray(v),
                                 !.settled = [i \in DOMAIN ExtensionsArray(v) |-> "pending"]]
  /\ UNCHANGED <<browser, fs>>
  /\ UNCHANGED notRunVars

Pending(r) == { i \in DOMAIN r.settled : r.settled[i] = "pending" }

\* The source directory of v can be read.
Readable(r, v) == v[1] = "value" => v[2].id \notin { ItemId(i) : i \in r.unreadable }

\* exportExtension(selected[i], browser) is made and settles: in the loop of
\* extension-exporter.ts, where the first rejection leaves run(); in index.ts
\* among the others of Promise.all, in a try/catch of its own.
ExportSettles(i) ==
  /\ run.pc = "exporting"
  /\ i \in Pending(run)
  /\ impl = "service" => \A j \in Pending(run) : i <= j
  /\ LET v == run.selected[i]
         r == ExportExtension(fs, browser, v, Readable(run, v))
     IN  /\ fs' = r.fs
         /\ run' = IF r.ok
                   THEN [run EXCEPT !.settled[i] = "resolved",
                                    !.log = Append(run.log, <<"exported", Subject(v)>>)]
                   ELSE [run EXCEPT !.settled[i] = "rejected",
                                    !.pc = IF impl = "service" THEN "rejected" ELSE @,
                                    !.log = Append(run.log, <<"failed", Subject(v)>>)]
  /\ UNCHANGED browser
  /\ UNCHANGED notRunVars

\* Every export has settled.
ExportsDone ==
  /\ run.pc = "exporting"
  /\ Pending(run) = {}
  /\ run' = RunReturned(run, "success",
                        IF impl = "index" THEN "All extensions have been exported successfully."
                        ELSE "Export completed successfully!")
  /\ UNCHANGED <<browser, fs>>
  /\ UNCHANGED notRunVars

InitRun ==
  /\ impl \in Impls
  /\ CmpIdle
  /\ DiscoveryIdle
  /\ queue = <<>>
  /\ exExt = <<>> /\ ex = ExIdle /\ copy = <<>> /\ fault = NoFault
  /\ browser = ""
  /\ GbpIdle
  /\ val = <<>>
  /\ fs = RunInitialFs
  /\ \E installed \in { <<>>, <<"chrome">>, <<"firefox">>, <<"chrome", "firefox">> },
        found \in 0..MaxFound :
       \E unreadable \in SUBSET (1..found) :
         run = [pc |-> "called", installed |-> installed, found |-> found,
                unreadable |-> unreadable, selected |-> <<>>, settled |-> <<>>,
                log |-> <<>>, cancelled |-> ""]

NextRun ==
  \/ RunStart
  \/ BrowserAnswered
  \/ ProfileAnswered
  \/ ExtensionsAnswered
  \/ \E i \in DOMAIN run.selected : ExportSettles(i)
  \/ ExportsDone

SpecRun == InitRun /\ [][NextRun]_vars

(***************************************************************************)
(* getBrowserProfiles(browser)                                             *)
(*                                                                         *)
(* pc: "called", "access" (pathExists(basePath)), then in index.ts         *)
(* "readdir" and "await" (Promise.all of the per-item functions, task[i]   *)
(* "queued", "stat" or "done"), in extension-exporter.ts "glob" (of        *)
(* pattern number pi) and "stat" (isDirectory of the first match of todo); *)
(* it ends "returned" or "threw".  The call is made twice on the same      *)
(* filesystem: round is 1 or 2 and first the list the first call returned. *)
(***************************************************************************)
\* config.profilePatterns of BROWSER_CONFIGS
ProfilePatterns(b) ==
  IF b = "firefox"
  THEN << <<"*", ".", "d", "e", "f", "a", "u", "l", "t", "*">>,
          <<"d", "e", "f", "a", "u", "l", "t", "-", "*">> >>
  ELSE IF b = "opera" THEN << <<"D", "e", "f", "a", "u", "l", "t">> >>
  ELSE << <<"D", "e", "f", "a", "u", "l", "t">>,
          <<"P", "r", "o", "f", "i", "l", "e", " ", "*">> >>

\* The keys of config.paths that BROWSER_CONFIGS defines, for every browser.
PathKeys(b) == {"windows", "mac", "linux"}

\* getCurrentPlatform(): <<key>>, or <<>> when it throws (index.ts, for a
\* platform that is none of win32, darwin, linux).
CurrentPlatform(os) ==
  IF os = "win32" THEN <<"windows">>
  ELSE IF os = "darwin" THEN <<"mac">>
  ELSE IF os = "linux" \/ impl = "service" THEN <<"linux">>
  ELSE <<>>

\* A name matches a glob pattern whose only magic is "*".
RECURSIVE GlobMatch(_, _)
GlobMatch(pattern, name) ==
  IF pattern = <<>> THEN name = <<>>
  ELSE IF Head(pattern) = "*"
  THEN GlobMatch(Tail(pattern), name) \/ (name # <<>> /\ GlobMatch(pattern, Tail(name)))
  ELSE name # <<>> /\ Head(name) = Head(pattern) /\ GlobMatch(Tail(pattern), Tail(name))

\* glob(pattern, { cwd: basePath }): the entries of the listing that match,
\* in the order of the listing.
GlobResult(pattern, listing) ==
  LET Matches(e) == GlobMatch(pattern, e.name) IN SelectSeq(listing, Matches)

\* config.profilePatterns.some((pattern) => glob.sync(pattern, ...).includes(item))
MatchesSomePattern(b, e) ==
  \E k \in DOMAIN ProfilePatterns(b) : GlobMatch(ProfilePatterns(b)[k], e.name)

\* basePath, and path.join(basePath, item)
BasePath(b) == <<"home", b>>

\* The call leaves: it returns its list, or throws.
GbpReturned(g) == [g EXCEPT !.pc = "returned"]

GbpThrew(g, e) == [g EXCEPT !.pc = "threw", !.err = e]

\* Config lookup, getCurrentPlatform, config.paths[platform].
GbpStart ==
  /\ gbp.pc = "called"
  /\ gbp' = IF browser \notin ConfiguredBrowsers THEN GbpThrew(gbp, "Unsupported browser")
            ELSE IF CurrentPlatform(gbp.platform) = <<>>
            THEN GbpThrew(gbp, "Unsupported platform")
            ELSE IF CurrentPlatform(gbp.platform)[1] \notin PathKeys(browser)
            THEN IF impl = "service" THEN GbpThrew(gbp, "Browser is not supported on platform")
                 ELSE GbpReturned(gbp)
            ELSE [gbp EXCEPT !.pc = "access"]
  /\ UNCHANGED notGbpVars

\* pathExists(basePath) has completed.
GbpAccessed ==
  /\ gbp.pc = "access"
  /\ gbp' = IF gbp.base = "absent" THEN GbpReturned(gbp)
            ELSE IF impl = "index" THEN [gbp EXCEPT !.pc = "readdir"]
            ELSE [gbp EXCEPT !.pc = "glob", !.pi = 1]
  /\ UNCHANGED notGbpVars

\* index.ts: fs.readdir(basePath) has completed; the per-item functions go
\* to this.limit, which starts the first ConcurrencyLimit of them.
GbpListed ==
  /\ gbp.pc = "readdir"
  /\ gbp' = [gbp EXCEPT !.pc = "await",
                        !.task = [i \in DOMAIN gbp.listing |->
                                    IF i <= ConcurrencyLimit THEN "stat" ELSE "queued"]]
  /\ UNCHANGED notGbpVars

\* index.ts: isDirectory(itemPath) of item i has completed; the item is
\* pushed when it is a directory that matches a pattern, and the limiter
\* starts the oldest queued function.
GbpItemDone(i) ==
  /\ gbp.pc = "await"
  /\ gbp.task[i] = "stat"
  /\ LET e      == gbp.listing[i]
         queued == { j \in DOMAIN gbp.task : gbp.task[j] = "queued" }
         next   == IF queued = {} THEN 0 ELSE CHOOSE j \in queued : \A k \in queued : j <= k
     IN  gbp' = [gbp EXCEPT
                   !.task = [j \in DOMAIN gbp.task |->
                               IF j = i THEN "done" ELSE IF j = next THEN "stat"
                               ELSE gbp.task[j]],
                   !.profiles = IF e.kind = "dir" /\ MatchesSomePattern(browser, e)
                                THEN Append(@, PathJoin(BasePath(browser), Str(e.name)))
                                ELSE @]
  /\ UNCHANGED notGbpVars

\* index.ts: Promise.all has resolved; return profiles.
GbpSettle ==
  /\ gbp.pc = "await"
  /\ \A i \in DOMAIN gbp.task : gbp.task[i] = "done"
  /\ gbp' = GbpReturned(gbp)
  /\ UNCHANGED notGbpVars

\* extension-exporter.ts: what follows the matches of pattern pi.
GbpNextPattern(g) ==
  IF g.pi < Len(ProfilePatterns(browser))
  THEN [g EXCEPT !.pc = "glob", !.pi = g.pi + 1, !.todo = <<>>]
  ELSE GbpReturned([g EXCEPT !.todo = <<>>])

\* extension-exporter.ts: glob(pattern, { cwd: basePath }) has completed.
GbpGlobbed ==
  /\ gbp.pc = "glob"
  /\ LET matches == GlobResult(ProfilePatterns(browser)[gbp.pi], gbp.listing)
     IN  gbp' = IF matches = <<>> THEN GbpNextPattern(gbp)
                ELSE [gbp EXCEPT !.pc = "stat", !.todo = matches]
  /\ UNCHANGED notGbpVars

\* extension-exporter.ts: isDirectory(profilePath) of the first match left
\* has completed.
GbpStatted ==
  /\ gbp.pc = "stat"
  /\ LET e == Head(gbp.todo)
         g == [gbp EXCEPT !.todo = Tail(@),
                          !.profiles = IF e.kind = "dir"
                                       THEN Append(@, PathJoin(BasePath(browser), Str(e.name)))
                                       ELSE @]
     IN  gbp' = IF g.todo = <<>> THEN GbpNextPattern(g) ELSE g
  /\ UNCHANGED notGbpVars

\* The call is made again, the filesystem being the same.
GbpAgain ==
  /\ gbp.pc = "returned"
  /\ gbp.round = 1
  /\ gbp' = [gbp EXCEPT !.pc = "called", !.round = 2, !.first = gbp.profiles,
                        !.profiles = <<>>, !.task = <<>>, !.pi = 0]
  /\ UNCHANGED notGbpVars

\* The entries a browser's base directory can hold.
ProfileEntries(b) ==
  IF b = "firefox"
  THEN { [name |-> <<"a", ".", "d", "e", "f", "a", "u", "l", "t">>, kind |-> "dir"],
         [name |-> <<"d", "e", "f", "a", "u", "l", "t", "-", "b">>, kind |-> "dir"],
         [name |-> <<"d", "e", "f", "a", "u", "l", "t", "-", "c", ".", "d", "e", "f", "a",
                     "u", "l", "t">>, kind |-> "file"],
         [name |-> <<"d", "e", "f", "a", "u", "l", "t", "-", "d", ".", "d", "e", "f", "a",
                     "u", "l", "t">>, kind |-> "dir"],
         [name |-> <<"c", "r", "a", "s", "h">>, kind |-> "dir"] }
  ELSE { [name |-> <<"D", "e", "f", "a", "u", "l", "t">>, kind |-> "dir"],
         [name |-> <<"P", "r", "o", "f", "i", "l", "e", " ", "1">>, kind |-> "dir"],
         [name |-> <<"P", "r", "o", "f", "i", "l", "e", " ", "2">>, kind |-> "file"],
         [name |-> <<"C", "a", "c", "h", "e">>, kind |-> "dir"] }

MaxEntries == 3

\* Listings of at most n entries with different names.
RECURSIVE Listings(_, _)
Listings(b, n) ==
  IF n = 0 THEN { <<>> }
  ELSE LET shorter == Listings(b, n - 1)
       IN  shorter \cup
           UNION { { Append(l, e) : e \in { x \in ProfileEntries(b) :
                                             \A k \in DOMAIN l : l[k] # x } }
                   : l \in { y \in shorter : Len(y) = n - 1 } }

\* os.platform()
Platforms == {"win32", "darwin", "linux", "freebsd"}

InitProfiles ==
  /\ impl \in Impls
  /\ CmpIdle
  /\ DiscoveryIdle
  /\ queue = <<>>
  /\ ExpIdle
  /\ RunIdle
  /\ val = <<>>
  /\ browser \in {"chrome", "opera", "firefox", "safari"}
  /\ \E os \in Platforms, base \in {"absent", "dir"} :
       \E listing \in IF base = "dir" THEN Listings(browser, MaxEntries) ELSE { <<>> } :
         gbp = [pc |-> "called", platform |-> os, base |-> base, listing |-> listing,
                pi |-> 0, todo |-> <<>>, task |-> <<>>, profiles |-> <<>>, err |-> "",
                round |-> 1, first |-> <<>>]

NextProfiles ==
  \/ GbpStart
  \/ GbpAccessed
  \/ GbpListed
  \/ \E i \in DOMAIN gbp.task : GbpItemDone(i)
  \/ GbpSettle
  \/ GbpGlobbed
  \/ GbpStatted
  \/ GbpAgain

SpecProfiles == InitProfiles /\ [][NextProfiles]_vars

(***************************************************************************)
(* SpecValidate: ExtensionInfoSchema.parse applied to a candidate record   *)
(***************************************************************************)
\* What a field of a candidate can be: missing, the empty string, a string,
\* a number.
FieldValues == { Undef, StrVal(<<>>), StrVal(<<"x">>), NumVal(1) }

CandidateManifests ==
  { Manifest(NumVal(mv), StrVal(ExtName), StrVal(<<"1">>), Undef, x) :
      mv \in 2..4, x \in { Undef, StrVal(<<"x">>) } }
  \cup { Manifest(NumVal(3), Undef, StrVal(<<"1">>), Undef, Undef) }

Candidates ==
  { [id |-> id, name |-> name, version |-> version, description |-> description,
     manifest |-> manifest, folderPath |-> folderPath] :
      id \in FieldValues, name \in FieldValues, version \in FieldValues,
      description \in { Undef, StrVal(<<"d">>), NumVal(1) },
      manifest \in CandidateManifests, folderPath \in FieldValues }

\* try { ExtensionInfoSchema.parse(info) } catch { ... }
Validate ==
  /\ val # <<>>
  /\ val.out = "unchecked"
  /\ val' = [val EXCEPT !.out = IF ExtensionInfoSchemaAccepts(val.info)
                                THEN "accepted" ELSE "rejected"]
  /\ UNCHANGED notValVars

InitValidate ==
  /\ impl \in Impls
  /\ CmpIdle
  /\ DiscoveryIdle
  /\ browser = ""
  /\ queue = <<>>
  /\ ExpIdle
  /\ RunIdle
  /\ GbpIdle
  /\ \E info \in Candidates : val = [info |-> info, out |-> "unchecked"]

NextValidate == Validate

SpecValidate == InitValidate /\ [][NextValidate]_vars

(***************************************************************************)
(* Version strings of the model                                            *)
(***************************************************************************)
\* Segments a version directory name is built from: plain numbers, a number
\* followed by other text (Chrome names version directories "1.2.3_0"), and
\* text with no leading number.
SegmentPool == { <<"0">>, <<"1">>, <<"2", "_", "0">>, <<"r", "c">> }

MaxSegments == 3

RECURSIVE SegmentLists(_)
SegmentLists(n) ==
  IF n = 0 THEN { <<>> }
  ELSE { Append(l, s) : l \in SegmentLists(n - 1), s \in SegmentPool }

VersionStrings ==
  { Join(l, ".") : l \in UNION { SegmentLists(n) : n \in 1..MaxSegments } }

V_1_2 == <<"1", ".", "2">>

V_1_2_0 == <<"1", ".", "2", ".", "0">>

V_2 == <<"2">>

V_1_9_9 == <<"1", ".", "9", ".", "9">>

\* The pairs the specification names as examples.
ExamplePairs == { <<V_1_2, V_1_2_0>>, <<V_1_2_0, V_1_2>>, <<V_2, V_1_9_9>>, <<V_1_9_9, V_2>> }

(***************************************************************************)
(* Specification SpecCompare: the comparator applied to two versions       *)
(***************************************************************************)
\* Both implementations carry the same comparator (index.ts 441-449,
\* services/extension-exporter.ts 125-133).
InitCompare ==
  /\ impl = "service"
  /\ \/ verA \in VersionStrings /\ verB \in VersionStrings
     \/ \E p \in ExamplePairs : verA = p[1] /\ verB = p[2]
  /\ cmpAB = <<>>
  /\ GefIdle
  /\ ExpIdle
  /\ RunIdle
  /\ GbpIdle
  /\ val = <<>>

Compare ==
  /\ cmpAB = <<>>
  /\ cmpAB' = <<CompareVersions(verA, verB)>>
  /\ UNCHANGED <<impl, verA, verB>>
  /\ UNCHANGED notCmpVars

NextCompare == Compare

SpecCompare == InitCompare /\ [][NextCompare]_vars

(***************************************************************************)
(* C9: the comparator against numeric comparison of the segments           *)
(***************************************************************************)
Pow10(n) == IF n = 0 THEN 1 ELSE IF n = 1 THEN 10 ELSE IF n = 2 THEN 100 ELSE 1000

\* The longest prefix of cs made of digits.
RECURSIVE DigitPrefix(_)
DigitPrefix(cs) ==
  IF cs = <<>> \/ ~IsDigit(Head(cs)) THEN <<>>
  ELSE <<Head(cs)>> \o DigitPrefix(Tail(cs))

\* The decimal value of a sequence of digits (0 for the empty one).
RECURSIVE DecimalSum(_)
DecimalSum(ds) ==
  IF ds = <<>> THEN 0
  ELSE DigitValue(Head(ds)) * Pow10(Len(ds) - 1) + DecimalSum(Tail(ds))

AllDigits(cs) == cs # <<>> /\ \A i \in 1..Len(cs) : IsDigit(cs[i])

\* A segment's worth when only a segment that is a number counts.
NumericOnlyValue(seg) == IF AllDigits(seg) THEN DecimalSum(seg) ELSE 0

\* A segment's worth when the number it starts with counts.
LeadingNumberValue(seg) == DecimalSum(DigitPrefix(seg))

\* Left-to-right comparison of two versions' segments, worth(seg) each, a
\* missing segment worth 0: 1 when a is the higher, -1 when b is, 0 when equal.
RefCompare(a, b, worth(_)) ==
  LET sa == Split(a, ".")
      sb == Split(b, ".")
      wa(i) == IF i <= Len(sa) THEN worth(sa[i]) ELSE 0
      wb(i) == IF i <= Len(sb) THEN worth(sb[i]) ELSE 0
      diffs == { i \in 1..MaxOf(Len(sa), Len(sb)) : wa(i) # wb(i) }
  IN  IF diffs = {} THEN 0
      ELSE LET first == CHOOSE i \in diffs : \A j \in diffs : i <= j
           IN  IF wa(first) > wb(first) THEN 1 ELSE -1

\* Versions of one segment, the third version in the transitivity check.
OneSegmentVersions == SegmentPool

\* C9 (as amended): the comparator is a total preorder on dotted version
\* strings that agrees with left-to-right comparison of the segments, each
\* segment counting as the number it starts with (what parseInt reads: "2_0"
\* counts as 2) and as 0 when it is missing or starts with no number; it
\* sorts the higher version first (negative result), is antisymmetric in
\* sign and transitive, "1.2" and "1.2.0" compare equal and "2" is higher
\* than "1.9.9".
C9_ComparatorAgreesWithLeadingNumbers ==
  cmpAB # <<>> =>
    /\ Sign(cmpAB[1]) = 0 - RefCompare(verA, verB, LeadingNumberValue)
    /\ Sign(CompareVersions(verB, verA)) = 0 - Sign(cmpAB[1])
    /\ cmpAB[1] <= 0 =>
         \A c \in OneSegmentVersions :
           CompareVersions(verB, c) <= 0 =>
             LET ac == CompareVersions(verA, c)
             IN  ac <= 0 /\ (cmpAB[1] < 0 => ac < 0)
    /\ (verA = V_1_2 /\ verB = V_1_2_0) => cmpAB[1] = 0
    /\ (verA = V_2 /\ verB = V_1_9_9) => cmpAB[1] < 0

\* C9 witness: the comparator has ranked "2" above "1.9.9".
C9_Witness == cmpAB # <<>> /\ verA = V_2 /\ verB = V_1_9_9 /\ cmpAB[1] < 0

\* C9 as stated: a segment that is not a number counts as 0, so that the
\* comparator agrees with comparison of the numeric segments alone.
C9_Original ==
  cmpAB # <<>> => Sign(cmpAB[1]) = 0 - RefCompare(verA, verB, NumericOnlyValue)

(***************************************************************************)
(* C7, C8, C10: discovery                                                  *)
(***************************************************************************)
\* The _locales directory can be listed and each messages.json in it is
\* absent or holds JSON whose message for the key is a string or is missing.
WellFormedLocales(l) ==
  /\ l.state # "unlistable"
  /\ \A k \in 1..Len(l.entries) :
       /\ l.entries[k].state \in {"missing", "object"}
       /\ OptionalString(l.entries[k].message)

\* A payload every file of which is readable and well formed, with a manifest
\* the schema accepts.
ValidPayload(c) ==
  /\ c.manifest.state = "object"
  /\ ManifestSchemaAccepts(c.manifest.json)
  /\ WellFormedLocales(c.locales)

\* The version subdirectories of an extension-id directory, as indices of
\* its listing, and those of them no other one is higher than.
VersionDirsOf(e) == { k \in 1..Len(e.subs) : e.subs[k].kind = "dir" }

HighestVersionDirs(e) ==
  { k \in VersionDirsOf(e) :
      \A j \in VersionDirsOf(e) :
        RefCompare(e.subs[k].name, e.subs[j].name, LeadingNumberValue) >= 0 }

\* An entry that is itself valid: a directory with a valid payload, which
\* for a Chromium-style browser is the payload of its highest version.
ValidEntry(e) ==
  /\ e.kind = "dir"
  /\ IF IsChromium(browser)
     THEN /\ e.listable
          /\ VersionDirsOf(e) # {}
          /\ \A k \in HighestVersionDirs(e) : ValidPayload(e.subs[k])
     ELSE ValidPayload(e)

\* The records of the result made for entry i.
RecordsOf(i) == { k \in 1..Len(gefResult) : gefResult[k].id = ItemId(i) }

CanBeListed == browser \in ConfiguredBrowsers /\ extRoot = "listed"

\* Errors stay with their entry: when the extensions directory can be
\* listed the call does not throw, and a result it returns has a record for
\* every valid entry.
ErrorsStayWithTheirEntry ==
  CanBeListed =>
    /\ gefPc # "threw"
    /\ \A i \in DOMAIN item : item[i].pc # "rejected"
    /\ gefPc = "returned" =>
         \A i \in 1..Len(extDir) : ValidEntry(extDir[i]) => RecordsOf(i) # {}

\* The call is in progress and nothing it waits for can happen any more.
Hung ==
  /\ gefPc = "running"
  /\ OpsInFlight = 0
  /\ \E i \in DOMAIN item : item[i].pc # "done"
  /\ \A i \in DOMAIN item :
       /\ item[i].pc # "rejected"
       /\ item[i].pc = "awaitLocales" => \E j \in 1..Len(loc[i]) : loc[i][j].pc # "done"

\* C7 as stated: whenever the extensions directory can be listed, the call
\* of getExtensionsFromProfile returns normally (it neither throws nor stays
\* pending for ever) and its result has a record for every entry that is
\* itself valid, whatever is wrong with the other entries.
C7_Original == ErrorsStayWithTheirEntry /\ ~Hung

\* C8: for a Chromium-style browser the result has no record for an
\* extension-id directory without a version subdirectory (or one that cannot
\* be listed), at most one record per extension-id directory, each record's
\* folderPath and manifest are those of a version subdirectory that no other
\* is higher than under dotted-numeric comparison, and there is exactly one
\* record when the highest version has a valid manifest.
C8_OneRecordOfTheHighestVersion ==
  (gefPc = "returned" /\ IsChromium(browser)) =>
    \A i \in 1..Len(extDir) :
      LET e == extDir[i]
          dirPath == PathJoin(ExtPath, Str(ItemId(i)))
      IN  /\ Cardinality(RecordsOf(i)) <= 1
          /\ (e.kind # "dir" \/ ~e.listable \/ VersionDirsOf(e) = {}) => RecordsOf(i) = {}
          /\ \A k \in RecordsOf(i) :
               \E m \in HighestVersionDirs(e) :
                 /\ gefResult[k].folderPath = PathJoin(dirPath, Str(e.subs[m].name))
                 /\ gefResult[k].manifest = e.subs[m].manifest.json
          /\ ValidEntry(e) => Cardinality(RecordsOf(i)) = 1

\* C8 witness: the listing 1.0, 1.2, 1.1 of the one extension-id directory
\* gave one record, that of version 1.2.
C8_Witness ==
  /\ gefPc = "returned"
  /\ IsChromium(browser)
  /\ Len(extDir) = 1
  /\ [k \in 1..Len(extDir[1].subs) |-> extDir[1].subs[k].name]
       = << <<"1", ".", "0">>, <<"1", ".", "2">>, <<"1", ".", "1">> >>
  /\ VersionDirsOf(extDir[1]) = {1, 2, 3}
  /\ Len(gefResult) = 1
  /\ gefResult[1].folderPath = <<"home", "profile", "Extensions", "ext1", "1.2">>
  /\ gefResult[1].manifest.version = StrVal(<<"1", ".", "2">>)

\* C10 as stated: at every moment at most 5 filesystem operations started by
\* the exporter are in progress.
C10_Original == OpsInFlight <= ConcurrencyLimit

(***************************************************************************)
(* C3, C4, C5, C6: one export                                              *)
(***************************************************************************)
\* The nodes of the directory the extension is installed in.
SourceNodes(f) == { n \in f : IsPrefix(exExt[1].folderPath, n.path) }

\* C3: exportExtension never creates, modifies or deletes anything under
\* extension.folderPath, whether the export succeeds or fails at any step:
\* no step of the export changes the nodes of the source directory.
C3_SourceNeverMutated ==
  [][exExt # <<>> => SourceNodes(fs') = SourceNodes(fs)]_vars

\* C3 witness: an export has gone through all its steps, the removal of the
\* working copy included, of a source with a nested directory.
C3_Witness ==
  /\ exExt # <<>>
  /\ ex.pc = "resolved"
  /\ ex.err = ""
  /\ Exists(fs, exExt[1].folderPath \o <<"js", "lib", "b.js">>)
  /\ ~Exists(fs, WorkDir(browser, exExt[1])) \/ impl = "index"
  /\ \E n \in fs : IsPrefix(ExportDir(browser), n.path) /\ n.kind # "dir"

\* The copy is at rest: no copyDirectory call or per-item function is
\* waiting or in progress.
CopyAtRest == \A k \in DOMAIN copy : copy[k].pc \in {"done", "failed"}

\* Every entry of the source directory is in the working copy.
WorkingCopyComplete ==
  \A t \in TreeUnder(fs, exExt[1].folderPath) :
    \E w \in TreeUnder(fs, WorkDir(browser, exExt[1])) : w[1] = t[1]

\* The archive is on disk, closed, with every entry of the working copy.
ArchiveWritten ==
  \E n \in fs :
    /\ n.path = ArchivePath(browser, exExt[1])
    /\ n.kind = "zip"
    /\ n.closed
    /\ n.data = TreeUnder(fs, WorkDir(browser, exExt[1]))

\* The awaits are in sequence: the archive is created only when the copy has
\* completed, and the working copy is there until createZipArchive settles.
AwaitsInSequence ==
  ex.pc \in {"zipOpen", "zipAppend", "zipClose"} =>
    CopyAtRest /\ WorkingCopyComplete /\ Exists(fs, WorkDir(browser, exExt[1]))

C5_Original ==
  ex.err \in {"copy", "archive", "output", "rm"} =>
    /\ ex.pc = "rejected"
    /\ Exists(fs, WorkDir(browser, exExt[1]))
    /\ ex.err = "archive" => Exists(fs, ArchivePath(browser, exExt[1]))

\* C6 as stated: after exportExtension has succeeded for a record and the
\* browser B, a compressed archive named from the record's display name and
\* version is in exports/B/ under the working directory and the working copy
\* is gone.
C6_Original ==
  ex.pc = "resolved" =>
    /\ \E n \in fs :
         /\ n.path = <<"cwd", "exports", browser,
                       Str(exExt[1].name[2]) \o "-" \o Str(exExt[1].version[2]) \o ".zip">>
         /\ n.kind = "zip"
         /\ n.closed
    /\ ~Exists(fs, WorkDir(browser, exExt[1]))

\* The one step run() takes exportExtension in agrees with its steps: a call
\* that resolved, and a call that rejected on the readdir of the source,
\* leave the filesystem ExportExtension gives.
ExportSummaryAgrees ==
  LET src == exExt[1].folderPath
      f0  == InitialFs(src, TreeUnder(fs, src))
      v   == Picked(exExt[1])
  IN  /\ (ex.pc = "resolved" /\ ex.err = "") =>
           /\ ExportExtension(f0, browser, v, TRUE).ok
           /\ fs = ExportExtension(f0, browser, v, TRUE).fs
      /\ (ex.pc = "rejected" /\ fault = [op |-> "readdir", at |-> 1]) =>
           /\ ~ExportExtension(f0, browser, v, FALSE).ok
           /\ fs = ExportExtension(f0, browser, v, FALSE).fs
      /\ (ex.pc = "rejected" /\ ex.err = "config") =>
           /\ ~ExportExtension(f0, browser, v, TRUE).ok
           /\ fs = ExportExtension(f0, browser, v, TRUE).fs

(***************************************************************************)
(* C1, C2: run()                                                           *)
(***************************************************************************)
\* run() has left, by returning or by rejecting.
RunLeft == run.pc \in {"returned", "rejected"}

\* The export of the extension ext is in the output tree.
Exported(f, b, ext) ==
  IF impl = "index" /\ b # "firefox"
  THEN \E n \in f : n.path = Append(WorkDir(b, ext), "manifest.json") /\ n.kind = "file"
  ELSE \E n \in f : n.path = ArchivePath(b, ext) /\ n.kind = "zip" /\ n.closed

\* The names run() has reported a failure for.
ReportedFailures == { run.log[k][2] : k \in { j \in DOMAIN run.log : run.log[j][1] = "failed" } }

\* C1 as stated: when run() has left a batch of selected extensions, every
\* selected extension whose own export did not fail is exported, and exactly
\* the extensions whose export failed are reported as failures.
C1_Original ==
  (RunLeft /\ run.selected # <<>> /\ run.cancelled = "") =>
    /\ \A i \in DOMAIN run.selected :
         Readable(run, run.selected[i]) => Exported(fs, browser, run.selected[i][2])
    /\ ReportedFailures =
         { Subject(run.selected[i]) :
             i \in { j \in DOMAIN run.selected : ~Readable(run, run.selected[j]) } }

\* C2: when the user cancels at a prompt of run() (browser, profile or
\* extensions), run() returns and the filesystem is the one run() started
\* from: nothing has been created, changed or removed.
C2_CancelWritesNothing ==
  run.cancelled # "" => run.pc = "returned" /\ fs = RunInitialFs

\* The filesystem changes in no step of run() but an export of a selected
\* extension.
WritesOnlyWhileExporting ==
  [][fs' # fs => run.pc = "exporting" /\ run.cancelled = ""]_vars

\* C2 witness: extensions were found, and the user cancelled at the
\* extension prompt.
C2_Witness ==
  /\ run.cancelled = "extensions"
  /\ run.pc = "returned"
  /\ run.found = MaxFound
  /\ browser \in RunBrowsers
  /\ fs = RunInitialFs

(***************************************************************************)
(* C11: the order of the discovery result                                  *)
(***************************************************************************)
\* The place of the entry named id in the listing of the extensions
\* directory.
EnumeratedAt(id) == CHOOSE i \in DOMAIN extDir : ItemId(i) = id

\* C11: the records getExtensionsFromProfile returns are in the order their
\* entries were enumerated in, whatever the order the per-entry functions
\* completed in.
C11_ResultInEnumerationOrder ==
  gefPc = "returned" =>
    \A k, l \in DOMAIN gefResult :
      k < l => EnumeratedAt(gefResult[k].id) < EnumeratedAt(gefResult[l].id)

\* The function of the second entry has returned its record and the function
\* of the first entry is still at work.
CompletedOutOfOrder ==
  /\ Len(item) >= 2
  /\ item[2].pc = "done" /\ item[2].out # <<>>
  /\ item[1].pc \notin {"done", "rejected", "queued"}

\* C11 witness: the call has returned the records of two entries.
C11_Witness ==
  /\ gefPc = "returned"
  /\ Len(extDir) = 2
  /\ Len(gefResult) = 2
  /\ gefResult[1].id = ItemId(1)
  /\ gefResult[2].id = ItemId(2)

(***************************************************************************)
(* C12, C19: getBrowserProfiles                                            *)
(***************************************************************************)
\* C12 as stated: for the same filesystem getBrowserProfiles returns the
\* same list in the same order, whatever the order the per-entry directory
\* checks complete in: the second call returns what the first returned.
C12_Original ==
  (gbp.round = 2 /\ gbp.pc = "returned") => gbp.profiles = gbp.first

\* The two calls return the same profiles, in whatever order.
SameProfilesBothTimes ==
  (gbp.round = 2 /\ gbp.pc = "returned") =>
    { gbp.profiles[k] : k \in DOMAIN gbp.profiles } = { gbp.first[k] : k \in DOMAIN gbp.first }

\* C19 as stated: for an identifier that is not configured the call fails
\* with the unsupported-browser error, and for a configured identifier with
\* no path for the current operating system it fails with an
\* unsupported-platform error; in neither case does it go on to a list.
C19_Original ==
  gbp.pc \notin {"idle", "called"} =>
    /\ browser \notin ConfiguredBrowsers =>
         gbp.pc = "threw" /\ gbp.err = "Unsupported browser"
    /\ (browser \in ConfiguredBrowsers /\ gbp.platform \notin {"win32", "darwin", "linux"}) =>
         /\ gbp.pc = "threw"
         /\ gbp.err \in {"Unsupported platform", "Browser is not supported on platform"}

(***************************************************************************)
(* C13, C14: localized names                                               *)
(***************************************************************************)
\* The payload the record r was made from.
PayloadOf(r) ==
  LET e == extDir[EnumeratedAt(r.id)]
  IN  IF IsChromium(browser)
      THEN e.subs[CHOOSE k \in 1..Len(e.subs) :
                    Str(e.subs[k].name) = r.folderPath[Len(r.folderPath)]]
      ELSE e

\* The messages the bundles of the locales directory l give for the key.
Yielded(l) ==
  { l.entries[j].message :
      j \in { k \in 1..Len(l.entries) :
                l.entries[k].state = "object" /\ Truthy(l.entries[k].message) } }

\* C13 as stated: no returned record has a name of the form __MSG_<key>__;
\* a localized manifest name has become a message of a locale bundle or,
\* when _locales is absent or no bundle yields the key, "Unknown Extension
\* (<id>)".
C13_Original ==
  gefPc = "returned" =>
    \A k \in DOMAIN gefResult :
      LET r == gefResult[k]
          l == PayloadOf(r).locales
      IN  /\ ~IsLocalized(r.name)
          /\ IsLocalized(r.manifest.name) =>
               IF l.state = "listed" /\ Yielded(l) # {}
               THEN r.name \in Yielded(l)
               ELSE r.name = UnknownExtension(r.id)

\* The English locale folders, in the order of preference.
EnglishLocales == <<"en", "en_US", "en_GB">>

\* The messages the English bundles of l give for the key, by preference.
EnglishYield(l) ==
  LET Yields(en) == \E j \in 1..Len(l.entries) :
                      /\ l.entries[j].locale = en
                      /\ l.entries[j].state = "object"
                      /\ Truthy(l.entries[j].message)
      Message(en) == l.entries[CHOOSE j \in 1..Len(l.entries) : l.entries[j].locale = en].message
      yielding    == SelectSeq(EnglishLocales, Yields)
  IN  [k \in DOMAIN yielding |-> Message(yielding[k])]

\* C14 as stated: when an English locale folder (en, en_US, en_GB, in that
\* order) yields the key of a __MSG_<key>__ name, the resolved name is that
\* English message, even when other locale folders hold the key too.
C14_Original ==
  gefPc = "returned" =>
    \A k \in DOMAIN gefResult :
      LET r == gefResult[k]
          l == PayloadOf(r).locales
      IN  (IsLocalized(r.manifest.name) /\ l.state = "listed" /\ EnglishYield(l) # <<>>) =>
            r.name = EnglishYield(l)[1]

(***************************************************************************)
(* C15, C16: the version default and the manifest variants                 *)
(***************************************************************************)
\* The entries that hold one payload: a Firefox extension directory, or an
\* extension-id directory with a single version directory.
SinglePayload(i) ==
  /\ extDir[i].kind = "dir"
  /\ IsChromium(browser) =>
       extDir[i].listable /\ Len(extDir[i].subs) = 1 /\ extDir[i].subs[1].kind = "dir"

ThePayload(i) == IF IsChromium(browser) THEN extDir[i].subs[1] ELSE extDir[i]

\* The manifest.json of entry i parses to an object with a plain name and
\* an optional description that are well formed.
WellFormedButVersion(i) ==
  LET c == ThePayload(i)
  IN  /\ c.manifest.state = "object"
      /\ IsString(c.manifest.json.name)
      /\ c.manifest.json.name[2] # <<>>
      /\ ~IsLocalized(c.manifest.json.name)
      /\ OptionalString(c.manifest.json.description)

\* C15 as stated: for a manifest with no version field that is otherwise
\* well formed, discovery returns a record of that extension with the
\* version "1.0.0".
C15_Original ==
  (gefPc = "returned" /\ CanBeListed) =>
    \A i \in DOMAIN extDir :
      ( /\ SinglePayload(i)
        /\ WellFormedButVersion(i)
        /\ ThePayload(i).manifest.json.manifest_version \in {NumVal(2), NumVal(3)}
        /\ ThePayload(i).manifest.json.version = Undef ) =>
        \E k \in DOMAIN gefResult :
          /\ gefResult[k].id = ItemId(i)
          /\ gefResult[k].version = StrVal(DefaultVersion)

\* C16: the validator accepts a record whose manifest has manifest_version 2
\* or 3 and rejects one with any other manifest_version: of the well-formed
\* manifests, those of version 2 and 3 have their record in the discovery
\* result and the others have none, and every returned record has the
\* manifest_version 2 or 3.
C16_OnlyManifestVersions2And3 ==
  (gefPc = "returned" /\ CanBeListed) =>
    /\ \A k \in DOMAIN gefResult :
         gefResult[k].manifest.manifest_version \in {NumVal(2), NumVal(3)}
    /\ \A i \in DOMAIN extDir :
         ( /\ SinglePayload(i)
           /\ WellFormedButVersion(i)
           /\ IsString(ThePayload(i).manifest.json.version) ) =>
           ( ThePayload(i).manifest.json.manifest_version \in {NumVal(2), NumVal(3)}
             <=> \E k \in DOMAIN gefResult : gefResult[k].id = ItemId(i) )

\* C16 witness: of two well-formed extensions, the one with manifest_version
\* 4 is left out and the one with manifest_version 3 is returned.
C16_Witness ==
  /\ gefPc = "returned"
  /\ Len(extDir) = 2
  /\ SinglePayload(1) /\ WellFormedButVersion(1)
  /\ SinglePayload(2) /\ WellFormedButVersion(2)
  /\ ThePayload(1).manifest.json.manifest_version = NumVal(4)
  /\ ThePayload(2).manifest.json.manifest_version = NumVal(3)
  /\ Len(gefResult) = 1
  /\ gefResult[1].id = ItemId(2)

\* A record of a manifest with manifest_version 2 has been returned.
ManifestVersion2Returned ==
  /\ gefPc = "returned"
  /\ Len(gefResult) = 1
  /\ gefResult[1].manifest.manifest_version = NumVal(2)

(***************************************************************************)
(* C17: the record's own fields                                            *)
(***************************************************************************)
\* v is a string with at least one character.
NonEmptyString(v) == IsString(v) /\ v[2] # <<>>

\* C17 as stated: the validator rejects every record whose id, name, version
\* or folderPath is missing or the empty string; only records with all four
\* as non-empty strings pass.
C17_Original ==
  (val # <<>> /\ val.out = "accepted") =>
    /\ NonEmptyString(val.info.id)
    /\ NonEmptyString(val.info.name)
    /\ NonEmptyString(val.info.version)
    /\ NonEmptyString(val.info.folderPath)

\* A record with one of the four fields missing, or not a string, is
\* rejected.
MissingFieldRejected ==
  (val # <<>> /\ val.out = "accepted") =>
    /\ IsString(val.info.id)
    /\ IsString(val.info.name)
    /\ IsString(val.info.version)
    /\ IsString(val.info.folderPath)

(***************************************************************************)
(* C18: manifest fields the schema does not know                           *)
(***************************************************************************)
\* The object a JSON reader gets from the text of a manifest.json, whatever
\* its white space.
JsonParse(text) ==
  LET known == PlainManifests \cup {LocalizedManifest}
  IN  IF \E m \in known : text \in {InstalledManifest(m), StringifiedManifest(m)}
      THEN CHOOSE m \in known : text \in {InstalledManifest(m), StringifiedManifest(m)}
      ELSE NoJson

\* The installed manifest.json, as text and as the object it holds.
SourceManifestText ==
  ContentOfNode(NodeAt(fs, Append(InstalledAt(browser, 1), "manifest.json")))

SourceManifest == ThePayload(1).manifest.json

\* The texts of the manifest.json of every payload under exports/<browser>:
\* the member of an archive and the file of an exported directory.
ExportedManifestTexts ==
  { t[2] : t \in { d \in UNION { n.data : n \in { x \in fs :
                                                    /\ x.kind = "zip"
                                                    /\ IsPrefix(ExportDir(browser), x.path) } } :
                    d[1] = <<"manifest.json">> } }
  \cup { ContentOfNode(n) :
           n \in { x \in fs : /\ x.kind = "file"
                             /\ IsPrefix(ExportDir(browser), x.path)
                             /\ x.path[Len(x.path)] = "manifest.json" } }

\* C18: the manifest of a returned record is the object the installed
\* manifest.json holds, the key the schema does not know included and with
\* no value altered; and after the record has been exported, every
\* manifest.json in the exported payload holds exactly that object.
C18_UnknownFieldsKept ==
  /\ gefPc = "returned" =>
        \A k \in DOMAIN gefResult :
          /\ gefResult[k].manifest = SourceManifest
          /\ gefResult[k].manifest = JsonParse(SourceManifestText)
  /\ exExt # <<>> /\ ex.pc = "resolved" /\ ex.err = "" =>
        /\ ExportedManifestTexts # {}
        /\ \A t \in ExportedManifestTexts : JsonParse(t) = JsonParse(SourceManifestText)

\* C18 witness: a record whose manifest has a key the schema does not know
\* has been discovered and exported by the implementation that writes
\* manifest.json anew, and the text written is not the text installed.
C18_Witness ==
  /\ impl = "index"
  /\ exExt # <<>>
  /\ ex.pc = "resolved"
  /\ ex.err = ""
  /\ SourceManifest.extra # Undef
  /\ exExt[1].manifest.extra = SourceManifest.extra
  /\ ExportedManifestTexts # {}
  /\ SourceManifestText \notin ExportedManifestTexts

(***************************************************************************)
(* C20: the same record exported twice                                     *)
(***************************************************************************)
\* The archives under exports/<browser>.
Archives(f) == { n \in ExportedNodes(f) : n.kind = "zip" }

\* C20 as stated: an export of a record that has resolved has produced an
\* archive whose payload is the files and the structure of the source
\* directory, and when it is the second export of the record its payload is
\* the payload of the first.
C20_Original ==
  exExt # <<>> /\ ex.pc = "resolved" =>
    /\ Archives(fs) # {}
    /\ \A a \in Archives(fs) : a.closed /\ a.data = TreeUnder(fs, exExt[1].folderPath)
    /\ ex.calls = 1 => Archives(fs) = Archives(ex.first)

\* With no call failing, the second export leaves under exports/<browser>
\* what the first left.
SecondExportSameAsFirst ==
  exExt # <<>> /\ ex.pc = "resolved" /\ ex.calls = 1 /\ fault = NoFault =>
    ExportedNodes(fs) = ex.first

(***************************************************************************)
(* C21: the one limiter of index.ts                                        *)
(***************************************************************************)
\* Entry tasks that hold a slot of this.limit and await locale tasks still
\* queued on it.
AwaitingQueuedLocales ==
  { i \in DOMAIN item :
      /\ item[i].pc = "awaitLocales"
      /\ \E j \in 1..Len(loc[i]) : loc[i][j].pc = "queued" }

\* Per-item functions of copyDirectory that hold a slot of this.limit and
\* await the copy of their subdirectory, whose per-item functions are still
\* queued on it.
AwaitingQueuedCopies ==
  { k \in 1..Len(copy) :
      /\ copy[k].kind = "item"
      /\ copy[k].pc = "awaitDir"
      /\ \E d \in 1..Len(copy) :
           /\ copy[d].kind = "dir"
           /\ copy[d].parent = k
           /\ copy[d].pc = "await"
           /\ \E j \in 1..Len(copy) :
                copy[j].kind = "item" /\ copy[j].parent = d /\ copy[j].pc = "queued" }

\* Every slot is held by a task that waits for tasks queued on the limiter.
AllSlotsWaitInDiscovery ==
  impl = "index" /\ Cardinality(AwaitingQueuedLocales) = ConcurrencyLimit

AllSlotsWaitInCopy ==
  /\ impl = "index"
  /\ ex.pc \in {"copy", "copyUnpacked"}
  /\ ex.held + Cardinality(AwaitingQueuedCopies) = ConcurrencyLimit

\* The copy exportExtension awaits is in progress and no filesystem call of
\* it is.
CopyHung ==
  /\ ex.pc \in {"copy", "copyUnpacked"}
  /\ \A k \in 1..Len(copy) : copy[k].pc \notin CopyOpPcs

\* C21 as stated: with the one 5-slot limiter of index.ts no reachable state
\* has all 5 slots held by tasks that wait for tasks still queued on the
\* same limiter, neither in getExtensionsFromProfile nor in the copy of
\* exportExtension, and so neither call stays pending for ever.
C21_Original == ~AllSlotsWaitInDiscovery /\ ~AllSlotsWaitInCopy /\ ~Hung

(***************************************************************************)
(* C22: createZipArchive settles                                           *)
(***************************************************************************)
\* The export makes an archive: the service always, index.ts for Firefox.
MakesArchive == impl = "service" \/ browser = "firefox"

\* C22 as stated: createZipArchive always settles; a failure of the archiver
\* or of the output stream rejects it, so that exportExtension rejects with
\* it, and it resolves only once the output file has been closed: an export
\* that resolved has left a closed archive.
C22_Original ==
  /\ ex.pc # "crashed"
  /\ ex.err \in {"archive", "output"} => ex.pc = "rejected"
  /\ (exExt # <<>> /\ ex.pc = "resolved" /\ MakesArchive) =>
        \E n \in fs : n.path = ArchivePath(browser, exExt[1]) /\ n.kind = "zip" /\ n.closed

\* A failure of the archiver rejects the call.
ArchiverErrorRejects == ex.err = "archive" => ex.pc = "rejected"

(***************************************************************************)
(* C23: the paths of two exports                                           *)
(***************************************************************************)
\* Pairs of selected records of different extensions of the profile.
DifferentRecords ==
  { p \in (DOMAIN run.selected) \X (DOMAIN run.selected) :
      /\ run.selected[p[1]][1] = "value"
      /\ run.selected[p[2]][1] = "value"
      /\ run.selected[p[1]][2].id # run.selected[p[2]][2].id }

\* C23 as stated: two different records discovered in one profile and
\* exported for the same browser never have the same archive path or the
\* same working directory.
C23_Original ==
  \A p \in DifferentRecords :
    LET a == run.selected[p[1]][2]
        b == run.selected[p[2]][2]
    IN  /\ ArchivePath(browser, a) # ArchivePath(browser, b)
        /\ WorkDir(browser, a) # WorkDir(browser, b)

\* The working directories of the service, named from the id, differ.
ServiceWorkDirsDiffer ==
  impl = "service" =>
    \A p \in DifferentRecords :
      WorkDir(browser, run.selected[p[1]][2]) # WorkDir(browser, run.selected[p[2]][2])

\* Records with different names and versions have different paths.
DifferentNamesDifferentPaths ==
  \A p \in DifferentRecords :
    LET a == run.selected[p[1]][2]
        b == run.selected[p[2]][2]
    IN  SafeName(a.name[2]) # SafeName(b.name[2]) =>
          /\ ArchivePath(browser, a) # ArchivePath(browser, b)
          /\ WorkDir(browser, a) # WorkDir(browser, b)

\* Two exports have resolved and left one archive between them.
OneArchiveForTwoExports ==
  /\ \E p \in DifferentRecords : run.settled[p[1]] = "resolved" /\ run.settled[p[2]] = "resolved"
  /\ Cardinality({ n \in fs : n.kind = "zip" }) = 1

(***************************************************************************)
(* C24: the list of profiles                                               *)
(***************************************************************************)
\* No path is in the list twice.
NoProfileTwice ==
  \A i, j \in DOMAIN gbp.profiles : i # j => gbp.profiles[i] # gbp.profiles[j]

\* Every element is a directory of the listing of the profile root whose
\* name matches a pattern of the browser.
OnlyMatchingDirectories ==
  \A k \in DOMAIN gbp.profiles :
    \E n \in DOMAIN gbp.listing :
      /\ gbp.listing[n].kind = "dir"
      /\ gbp.profiles[k] = PathJoin(BasePath(browser), Str(gbp.listing[n].name))
      /\ MatchesSomePattern(browser, gbp.listing[n])

\* C24 as stated: the list getBrowserProfiles returns has each profile
\* directory at most once, also when its name matches more than one pattern
\* of the browser, and every element is an existing direct subdirectory of
\* the profile root that matches at least one pattern.
C24_Original == gbp.pc = "returned" => NoProfileTwice /\ OnlyMatchingDirectories

\* Every matching directory of the profile root is in the returned list.
EveryMatchingDirectoryListed ==
  gbp.pc = "returned" =>
    \A n \in DOMAIN gbp.listing :
      (gbp.listing[n].kind = "dir" /\ MatchesSomePattern(browser, gbp.listing[n])) =>
        \E k \in DOMAIN gbp.profiles :
          gbp.profiles[k] = PathJoin(BasePath(browser), Str(gbp.listing[n].name))
====
